---- MODULE Spec2Model ----
(***************************************************************************)
(* Agent V2 of haneiva1/autoventas: the conversation automation engine.    *)
(* processMessage loads the conversation state, detects events, asks the   *)
(* generation component for a proposal, validates the proposed actions     *)
(* against the loaded state, executes the accepted ones on a working copy, *)
(* saves the result and appends the audit records.                         *)
(***************************************************************************)
EXTENDS Integers, Sequences, FiniteSets, TLC

VARIABLES
    db,              \* the conversation_state row of the conversation, or NoRow
    products,        \* the vendi_products rows of the tenant (active ones)
    action_history,  \* the action_history rows of the conversation, in insertion order
    run,             \* the locals of the processMessage invocation in flight
    mode,            \* what the environment of this specification may do
    probe            \* inputs and outputs of a direct call of one function

vars == <<db, products, action_history, run, mode, probe>>

-----------------------------------------------------------------------------
(* JavaScript values, as far as the engine tells them apart.               *)

Undefined == [t |-> "undefined"]
Null      == [t |-> "null"]
Str(s)    == [t |-> "string", s |-> s]
\* a number n (half = FALSE) or n + 0.5 (half = TRUE)
Num(n)    == [t |-> "number", n |-> n, half |-> FALSE]
Half(n)   == [t |-> "number", n |-> n, half |-> TRUE]
NaN       == [t |-> "NaN"]

IsString(v) == v.t = "string"
\* typeof v === 'number' (NaN is a number)
IsNumber(v) == v.t \in {"number", "NaN"}
\* Number.isInteger(v)
NumberIsInteger(v) == v.t = "number" /\ ~v.half
\* !v
Falsy(v) ==
    \/ v.t \in {"undefined", "null", "NaN"}
    \/ v.t = "string" /\ v.s = ""
    \/ v.t = "number" /\ ~v.half /\ v.n = 0
\* s.trim() of the strings the model uses
Trim(s) == IF s = " " THEN "" ELSE s
\* typeof v === 'object' && v !== null (an array is an object)
IsObject(v) == v.t \in {"object", "array"}
\* v.name of an object: undefined when v has no such key (no array has one)
Prop(v, name) == IF v.t = "object" THEN v[name] ELSE Undefined

-----------------------------------------------------------------------------
(* constants.ts                                                            *)

FSM_STATES ==
    {"IDLE", "BROWSING", "CART_OPEN", "CHECKOUT", "AWAITING_PAYMENT",
     "COMPLETED", "HUMAN_TAKEOVER"}

ALLOWED_ACTIONS ==
    {"SHOW_CATALOG", "SHOW_PRODUCT", "ADD_TO_CART", "UPDATE_QUANTITY",
     "REMOVE_ITEM", "CLEAR_CART", "REVIEW_ORDER", "CONFIRM_ORDER",
     "CANCEL_ORDER", "REPLY", "CLARIFY", "ESCALATE"}

PROHIBITED_ACTIONS ==
    {"MODIFY_PRICE", "APPLY_DISCOUNT", "APPROVE_PAYMENT", "REJECT_PAYMENT",
     "DISABLE_OVERRIDE"}

\* validStates: 'all' is AllStates, a list of states is its set; a missing flag is FALSE
AllStates == [all |-> TRUE, states |-> {}]
Only(states) == [all |-> FALSE, states |-> states]

Rule(states, pid, qty, notEmpty, inCart) ==
    [validStates |-> states, requiresProductId |-> pid, requiresQuantity |-> qty,
     requiresCartNotEmpty |-> notEmpty, requiresItemInCart |-> inCart]

ACTION_VALIDATION_RULES ==
    [type \in ALLOWED_ACTIONS |->
        CASE type = "SHOW_CATALOG"    -> Rule(AllStates, FALSE, FALSE, FALSE, FALSE)
          [] type = "SHOW_PRODUCT"    -> Rule(AllStates, TRUE, FALSE, FALSE, FALSE)
          [] type = "ADD_TO_CART"     ->
                Rule(Only({"IDLE", "BROWSING", "CART_OPEN"}), TRUE, TRUE, FALSE, FALSE)
          [] type = "UPDATE_QUANTITY" -> Rule(Only({"CART_OPEN"}), TRUE, TRUE, FALSE, TRUE)
          [] type = "REMOVE_ITEM"     -> Rule(Only({"CART_OPEN"}), TRUE, FALSE, FALSE, TRUE)
          [] type = "CLEAR_CART"      -> Rule(Only({"CART_OPEN"}), FALSE, FALSE, TRUE, FALSE)
          [] type = "REVIEW_ORDER"    -> Rule(Only({"CART_OPEN"}), FALSE, FALSE, TRUE, FALSE)
          [] type = "CONFIRM_ORDER"   -> Rule(Only({"CHECKOUT"}), FALSE, FALSE, TRUE, FALSE)
          [] type = "CANCEL_ORDER"    ->
                Rule(Only({"CART_OPEN", "CHECKOUT", "AWAITING_PAYMENT"}),
                     FALSE, FALSE, FALSE, FALSE)
          [] type = "REPLY"           -> Rule(AllStates, FALSE, FALSE, FALSE, FALSE)
          [] type = "CLARIFY"         -> Rule(AllStates, FALSE, FALSE, FALSE, FALSE)
          [] type = "ESCALATE"        -> Rule(AllStates, FALSE, FALSE, FALSE, FALSE)]

QUANTITY_MIN == 1
QUANTITY_MAX == 100

DEFAULT_CART == [items |-> <<>>, total |-> 0, currency |-> "BOB"]

NoOrder == "null"

DEFAULT_CONVERSATION_STATE ==
    [fsm_state |-> "IDLE", human_override |-> FALSE, human_override_at |-> Null,
     cart_json |-> DEFAULT_CART, pending_order_id |-> NoOrder,
     last_llm_response |-> Null]

-----------------------------------------------------------------------------
(* Actions and their params.  A ProposedAction is [type, params]; params   *)
(* is Undefined, Null or a record of the four fields, each a JS value.     *)

Params(pid, qty) ==
    [t |-> "object", product_id |-> pid, product_name |-> Undefined,
     quantity |-> qty, reason |-> Undefined]

NoParams == Params(Undefined, Undefined)

\* type and params are JS values: what the generation component sends is not typed
Action(type, params) == [t |-> "object", type |-> Str(type), params |-> params]

\* params?.field
ParamOf(params, field) ==
    IF params.t = "object" THEN params[field] ELSE Undefined

RECURSIVE SumSubtotals(_)
\* items.reduce((sum, item) => sum + item.subtotal, 0)
SumSubtotals(items) ==
    IF items = <<>> THEN 0
    ELSE SumSubtotals(SubSeq(items, 1, Len(items) - 1)) + items[Len(items)].subtotal

\* a search that finds no line
FindIndex_notFound(items, product_id) == 0

\* items.findIndex(i => i.product_id === product_id), 0 for -1
FindIndex(items, product_id) ==
    IF \E i \in 1..Len(items) : Str(items[i].product_id) = product_id
    THEN CHOOSE i \in 1..Len(items) :
            /\ Str(items[i].product_id) = product_id
            /\ \A j \in 1..(i - 1) : Str(items[j].product_id) # product_id
    ELSE 0

\* a splice without its count: the lines from index on are all removed
Splice_toTheEnd(items, index) == SubSeq(items, 1, index - 1)

\* items.splice(index, 1)
Splice(items, index) ==
    SubSeq(items, 1, index - 1) \o SubSeq(items, index + 1, Len(items))

-----------------------------------------------------------------------------
(* action-validator.ts                                                     *)

Rejected(error, action) == [valid |-> FALSE, error |-> error, action |-> action]
Accepted(action) == [valid |-> TRUE, error |-> Undefined, action |-> action]

\* a validator that knows no prohibited type
isProhibitedAction_none(type) == FALSE

\* PROHIBITED_ACTIONS.includes(type)
isProhibitedAction(type) == IsString(type) /\ type.s \in PROHIBITED_ACTIONS

\* a check that remembers it was called: it knows the allowed types only the
\* first time
isAllowedAction_firstCallOnly(type) ==
    Len(probe.calls) = 0 /\ IsString(type) /\ type.s \in ALLOWED_ACTIONS

\* ALLOWED_ACTIONS.includes(type)
isAllowedAction(type) == IsString(type) /\ type.s \in ALLOWED_ACTIONS

\* An error is a string; the values the source interpolates into it are kept
\* as further fields.
\* a state check that accepts every state
validateState_everyState(actionType, currentState, validStates) == Null

\* the error, or Null
validateState(actionType, currentState, validStates) ==
    IF validStates.all THEN Null
    ELSE IF currentState \notin validStates.states
         THEN [t |-> "string", s |-> "is not allowed in state", type |-> actionType,
               state |-> currentState, valid_states |-> validStates.states]
         ELSE Null

\* productId is a string or undefined (the declared type)
validateProductId(productId) ==
    IF Falsy(productId) \/ Trim(productId.s) = ""
    THEN [t |-> "string", s |-> "product_id is required"]
    ELSE Null

\* the quantity check without its upper limit
validateQuantity_unlimited(quantity) ==
    IF quantity = Undefined \/ quantity = Null
    THEN [t |-> "string", s |-> "quantity is required"]
    ELSE IF ~NumberIsInteger(quantity)
    THEN [t |-> "string", s |-> "quantity must be an integer", got |-> quantity]
    ELSE IF quantity.n < QUANTITY_MIN
    THEN [t |-> "string", s |-> "quantity must be between 1 and 100", got |-> quantity]
    ELSE Null

validateQuantity(quantity) ==
    IF quantity = Undefined \/ quantity = Null
    THEN [t |-> "string", s |-> "quantity is required"]
    ELSE IF ~NumberIsInteger(quantity)
    THEN [t |-> "string", s |-> "quantity must be an integer", got |-> quantity]
    ELSE IF quantity.n < QUANTITY_MIN \/ quantity.n > QUANTITY_MAX
    THEN [t |-> "string", s |-> "quantity must be between 1 and 100", got |-> quantity]
    ELSE Null

\* a cart check that every cart passes
validateCartNotEmpty_never(cart) == Null

validateCartNotEmpty(cart) ==
    IF Len(cart.items) = 0 THEN [t |-> "string", s |-> "Cart is empty"] ELSE Null

validateItemInCart(productId, cart) ==
    IF Falsy(productId)
    THEN [t |-> "string", s |-> "product_id is required to identify item in cart"]
    ELSE IF ~(\E i \in 1..Len(cart.items) : Str(cart.items[i].product_id) = productId)
    THEN [t |-> "string", s |-> "Item not found in cart", product_id |-> productId]
    ELSE Null

\* context is [currentState, cart]
validateAction(action, context) ==
    LET type   == action.type
        params == action.params
    IN
    IF isProhibitedAction(type)
    THEN Rejected([t |-> "string", s |-> "is prohibited", type |-> type], action)
    ELSE IF ~isAllowedAction(type)
    THEN Rejected([t |-> "string", s |-> "is not a recognized action type", type |-> type], action)
    ELSE
    LET rules        == ACTION_VALIDATION_RULES[type.s]
        stateError   == validateState(type.s, context.currentState, rules.validStates)
        productError == validateProductId(ParamOf(params, "product_id"))
        quantityError == validateQuantity(ParamOf(params, "quantity"))
        cartError    == validateCartNotEmpty(context.cart)
        itemError    == validateItemInCart(ParamOf(params, "product_id"), context.cart)
    IN
    IF stateError # Null THEN Rejected(stateError, action)
    ELSE IF rules.requiresProductId /\ productError # Null
    THEN Rejected(productError, action)
    ELSE IF rules.requiresQuantity /\ quantityError # Null
    THEN Rejected(quantityError, action)
    ELSE IF rules.requiresCartNotEmpty /\ cartError # Null
    THEN Rejected(cartError, action)
    ELSE IF rules.requiresItemInCart /\ itemError # Null
    THEN Rejected(itemError, action)
    ELSE Accepted(action)

validateActions(actions, context) ==
    [i \in 1..Len(actions) |-> validateAction(actions[i], context)]

\* a filter that ends at the first result of the other kind
RECURSIVE FilterValid_endsAtFirstOther(_, _)
FilterValid_endsAtFirstOther(results, wanted) ==
    IF results = <<>> THEN <<>>
    ELSE IF Head(results).valid = wanted
         THEN <<Head(results)>> \o FilterValid_endsAtFirstOther(Tail(results), wanted)
         ELSE <<>>

RECURSIVE FilterValid(_, _)
FilterValid(results, wanted) ==
    IF results = <<>> THEN <<>>
    ELSE LET rest == FilterValid(Tail(results), wanted)
         IN IF Head(results).valid = wanted THEN <<Head(results)>> \o rest ELSE rest

RECURSIVE MapAction(_)
MapAction(results) ==
    IF results = <<>> THEN <<>>
    ELSE <<Head(results).action>> \o MapAction(Tail(results))

getValidActions(actions, context) ==
    LET results == validateActions(actions, context)
    IN [valid    |-> MapAction(FilterValid(results, TRUE)),
        rejected |-> FilterValid(results, FALSE)]

-----------------------------------------------------------------------------
(* action-executor.ts                                                      *)

Executed(state) == [executed |-> TRUE, state |-> state]
NotExecuted(state) == [executed |-> FALSE, state |-> state]

\* a transition that opens the cart from every state
transitionOnAddToCart_fromAnyState(current) == "CART_OPEN"

transitionOnAddToCart(current) ==
    IF current \in {"IDLE", "BROWSING"} THEN "CART_OPEN" ELSE current

\* catalog.find(p => p.id === product_id): the index of the first match, or 0
FindProduct(catalog, product_id) ==
    IF \E i \in 1..Len(catalog) : Str(catalog[i].id) = product_id
    THEN CHOOSE i \in 1..Len(catalog) :
            /\ Str(catalog[i].id) = product_id
            /\ \A j \in 1..(i - 1) : Str(catalog[j].id) # product_id
    ELSE 0

executeAddToCart(action, state, catalog) ==
    LET product_id == ParamOf(action.params, "product_id")
        quantity   == ParamOf(action.params, "quantity")
    IN
    IF Falsy(product_id) \/ Falsy(quantity) THEN NotExecuted(state)
    ELSE IF FindProduct(catalog, product_id) = 0 THEN NotExecuted(state)
    ELSE
    LET product       == catalog[FindProduct(catalog, product_id)]
        cart          == state.cart_json
        existingIndex == FindIndex(cart.items, product_id)
        items ==
            IF existingIndex > 0
            THEN LET item == cart.items[existingIndex]
                     q    == item.quantity + quantity.n
                 IN [cart.items EXCEPT ![existingIndex] =
                        [item EXCEPT !.quantity = q, !.subtotal = q * item.unit_price]]
            ELSE Append(cart.items,
                    [product_id |-> product.id, name |-> product.name,
                     quantity |-> quantity.n, unit_price |-> product.price,
                     subtotal |-> quantity.n * product.price])
    IN Executed([state EXCEPT
            !.cart_json = [cart EXCEPT !.items = items, !.total = SumSubtotals(items)],
            !.fsm_state = transitionOnAddToCart(state.fsm_state)])

executeUpdateQuantity(action, state) ==
    LET product_id == ParamOf(action.params, "product_id")
        quantity   == ParamOf(action.params, "quantity")
        cart       == state.cart_json
        itemIndex  == FindIndex(cart.items, product_id)
    IN
    IF Falsy(product_id) \/ Falsy(quantity) THEN NotExecuted(state)
    ELSE IF itemIndex = 0 THEN NotExecuted(state)
    ELSE
    LET item  == cart.items[itemIndex]
        items == [cart.items EXCEPT ![itemIndex] =
                    [item EXCEPT !.quantity = quantity.n,
                                 !.subtotal = quantity.n * item.unit_price]]
    IN Executed([state EXCEPT
            !.cart_json = [cart EXCEPT !.items = items, !.total = SumSubtotals(items)]])

\* the removal without its fallback to BROWSING
executeRemoveItem_keepsState(action, state) ==
    LET product_id == ParamOf(action.params, "product_id")
        cart       == state.cart_json
        itemIndex  == FindIndex(cart.items, product_id)
    IN
    IF Falsy(product_id) THEN NotExecuted(state)
    ELSE IF itemIndex = 0 THEN NotExecuted(state)
    ELSE
    LET items == Splice(cart.items, itemIndex)
    IN Executed([state EXCEPT
            !.cart_json = [cart EXCEPT !.items = items, !.total = SumSubtotals(items)]])

executeRemoveItem(action, state) ==
    LET product_id == ParamOf(action.params, "product_id")
        cart       == state.cart_json
        itemIndex  == FindIndex(cart.items, product_id)
    IN
    IF Falsy(product_id) THEN NotExecuted(state)
    ELSE IF itemIndex = 0 THEN NotExecuted(state)
    ELSE
    LET items == Splice(cart.items, itemIndex)
    IN Executed([state EXCEPT
            !.cart_json = [cart EXCEPT !.items = items, !.total = SumSubtotals(items)],
            !.fsm_state = IF Len(items) = 0 THEN "BROWSING" ELSE state.fsm_state])

\* the cart emptied, its total left as it was
executeClearCart_keepsTotal(state) ==
    Executed([state EXCEPT !.cart_json.items = <<>>, !.fsm_state = "BROWSING"])

executeClearCart(state) ==
    Executed([state EXCEPT !.cart_json = DEFAULT_CART, !.fsm_state = "BROWSING"])

\* a review that moves to CHECKOUT from every state
executeReviewOrder_fromAnyState(state) ==
    Executed([state EXCEPT !.fsm_state = "CHECKOUT"])

executeReviewOrder(state) ==
    IF state.fsm_state # "CART_OPEN" THEN Executed(state)
    ELSE Executed([state EXCEPT !.fsm_state = "CHECKOUT"])

executeConfirmOrder(state) ==
    IF state.fsm_state # "CHECKOUT" THEN Executed(state)
    ELSE Executed([state EXCEPT !.fsm_state = "AWAITING_PAYMENT"])

executeCancelOrder(state) ==
    Executed([state EXCEPT !.cart_json = DEFAULT_CART, !.fsm_state = "IDLE",
                           !.pending_order_id = NoOrder])

\* the escalation applied to the state and reported as not executed
executeEscalate_unreported(state, now) ==
    NotExecuted([state EXCEPT !.fsm_state = "HUMAN_TAKEOVER", !.human_override = TRUE,
                              !.human_override_at = Str(now)])

\* the escalation without its timestamp
executeEscalate_withoutTimestamp(state, now) ==
    Executed([state EXCEPT !.fsm_state = "HUMAN_TAKEOVER", !.human_override = TRUE])

\* now is new Date().toISOString()
executeEscalate(state, now) ==
    Executed([state EXCEPT !.fsm_state = "HUMAN_TAKEOVER", !.human_override = TRUE,
                           !.human_override_at = Str(now)])

executeSingleAction(action, state, catalog, now) ==
    CASE action.type = Str("ADD_TO_CART")     -> executeAddToCart(action, state, catalog)
      [] action.type = Str("UPDATE_QUANTITY") -> executeUpdateQuantity(action, state)
      [] action.type = Str("REMOVE_ITEM")     -> executeRemoveItem(action, state)
      [] action.type = Str("CLEAR_CART")      -> executeClearCart(state)
      [] action.type = Str("REVIEW_ORDER")    -> executeReviewOrder(state)
      [] action.type = Str("CONFIRM_ORDER")   -> executeConfirmOrder(state)
      [] action.type = Str("CANCEL_ORDER")    -> executeCancelOrder(state)
      [] action.type = Str("ESCALATE")        -> executeEscalate(state, now)
      [] action.type \in {Str("SHOW_CATALOG"), Str("SHOW_PRODUCT"), Str("REPLY"),
                          Str("CLARIFY")} -> Executed(state)
      [] OTHER -> NotExecuted(state)

\* cloneState, cloneCart: the copy has the same content
cloneState(state) == state

\* the loop of executeActions from its turn i on: [executed_actions, new_state]
RECURSIVE ExecuteFrom(_, _, _, _, _, _)
ExecuteFrom(actions, i, state, executed_actions, catalog, now) ==
    IF i > Len(actions)
    THEN [executed_actions |-> executed_actions, new_state |-> state]
    ELSE LET result == executeSingleAction(actions[i], state, catalog, now)
         IN ExecuteFrom(actions, i + 1, result.state,
                IF result.executed THEN Append(executed_actions, actions[i])
                ELSE executed_actions,
                catalog, now)

\* input is [actions, current_state, product_catalog]
executeActions(input, now) ==
    ExecuteFrom(input.actions, 1, cloneState(input.current_state), <<>>,
                input.product_catalog, now)

-----------------------------------------------------------------------------
(* llm-orchestrator.ts                                                     *)

MAX_ACTIONS == 5
MAX_RESPONSE_TEXT_LENGTH == 500

FALLBACK_RESPONSE_TEXT ==
    "Disculpa, no pude procesar tu mensaje. Podrias intentar de nuevo?"

\* stand-ins for texts of exactly 500 and 501 characters
Text500 == "<500 characters>"
Text501 == "<501 characters>"

\* s.length of the strings the model uses
Length(s) ==
    CASE s = ""      -> 0
      [] s = " "     -> 1
      [] s = Text500 -> 500
      [] s = Text501 -> 501
      [] s = FALLBACK_RESPONSE_TEXT -> 66
      [] OTHER       -> 20

Array(items) == [t |-> "array", items |-> items]

\* the object the generation component is asked for; an absent key is Undefined
ResponseObject(actions, text, suggested, reasoning) ==
    [t |-> "object", proposed_actions |-> actions, response_text |-> text,
     suggested_state |-> suggested, reasoning |-> reasoning]

\* what callLlm resolves to: it throws, or a string to be parsed, or a value
LlmThrows == [k |-> "throw"]
LlmString(prefix, json, suffix) ==
    [k |-> "string", prefix |-> prefix, json |-> json, suffix |-> suffix]
LlmValue(v) == [k |-> "value", v |-> v]

\* what is no JSON text
Garbage == [t |-> "garbage"]

isValidFsmState(state) == IsString(state) /\ state.s \in FSM_STATES

\* a type check that takes any name
isValidActionType_anyName(type) == IsString(type)

isValidActionType(type) == IsString(type) /\ type.s \in ALLOWED_ACTIONS

\* 'name' in p: the model writes an absent key as Undefined
In(p, name) == Prop(p, name) # Undefined

isValidActionParams(params) ==
    IF params = Undefined \/ params = Null THEN TRUE
    ELSE IF ~IsObject(params) THEN FALSE
    ELSE IF In(params, "product_id") /\ ~IsString(params.product_id) THEN FALSE
    ELSE IF In(params, "product_name") /\ ~IsString(params.product_name) THEN FALSE
    ELSE IF In(params, "quantity")
            /\ (~IsNumber(params.quantity) \/ ~NumberIsInteger(params.quantity))
    THEN FALSE
    ELSE IF In(params, "quantity")
            /\ (params.quantity.n < 1 \/ params.quantity.n > 100)
    THEN FALSE
    ELSE IF In(params, "reason") /\ ~IsString(params.reason) THEN FALSE
    ELSE TRUE

isValidProposedAction(action) ==
    IF ~IsObject(action) THEN FALSE
    ELSE IF ~In(action, "type") \/ ~isValidActionType(Prop(action, "type")) THEN FALSE
    ELSE IF ~isValidActionParams(Prop(action, "params")) THEN FALSE
    ELSE TRUE

\* the LlmResponse, or Null
validateLlmResponse(response) ==
    LET proposed_actions == Prop(response, "proposed_actions")
        response_text    == Prop(response, "response_text")
        suggested_state  == Prop(response, "suggested_state")
        reasoning        == Prop(response, "reasoning")
    IN
    IF ~IsObject(response) THEN Null
    ELSE IF proposed_actions.t # "array" THEN Null
    ELSE IF Len(proposed_actions.items) = 0
            \/ Len(proposed_actions.items) > MAX_ACTIONS
    THEN Null
    ELSE IF \E i \in 1..Len(proposed_actions.items) :
                ~isValidProposedAction(proposed_actions.items[i])
    THEN Null
    ELSE IF ~IsString(response_text) THEN Null
    ELSE IF Length(response_text.s) > MAX_RESPONSE_TEXT_LENGTH THEN Null
    ELSE IF suggested_state # Undefined /\ ~isValidFsmState(suggested_state)
    THEN Null
    ELSE IF reasoning # Undefined /\ ~IsString(reasoning) THEN Null
    ELSE [reasoning        |-> reasoning,
          proposed_actions |-> proposed_actions.items,
          response_text    |-> response_text,
          suggested_state  |-> suggested_state]

\* the markdown code fence (three backquotes) is written FENCE
\* what is left of the prefix after the opening fence is removed
AfterOpeningFence(prefix) ==
    IF prefix = "FENCEjson" THEN ""
    ELSE IF prefix = "FENCE" THEN ""
    ELSE IF prefix = "FENCEJSON" THEN "JSON"
    ELSE prefix

AfterClosingFence(suffix) == IF suffix = "FENCE" THEN "" ELSE suffix

\* the parsed value, or Null (JSON.parse threw, or the text is the JSON null)
parseJsonResponse(responseText) ==
    IF /\ AfterOpeningFence(responseText.prefix) = ""
       /\ AfterClosingFence(responseText.suffix) = ""
       /\ responseText.json # Garbage
    THEN responseText.json
    ELSE Null

createFallbackResponse(currentState) ==
    [reasoning        |-> Undefined,
     proposed_actions |-> <<>>,
     response_text    |-> Str(FALLBACK_RESPONSE_TEXT),
     suggested_state  |-> Str(currentState)]

\* input is the LlmContextInput, raw what callLlm does
runLlmOrchestrator(input, raw) ==
    IF raw.k = "throw" THEN createFallbackResponse(input.current_state)
    ELSE
    LET parsedResponse == IF raw.k = "string" THEN parseJsonResponse(raw) ELSE raw.v
    IN
    IF raw.k = "string" /\ parsedResponse = Null
    THEN createFallbackResponse(input.current_state)
    ELSE
    LET validatedResponse == validateLlmResponse(parsedResponse)
    IN
    IF validatedResponse = Null THEN createFallbackResponse(input.current_state)
    ELSE IF validatedResponse.suggested_state = Undefined
    THEN [validatedResponse EXCEPT !.suggested_state = Str(input.current_state)]
    ELSE validatedResponse

-----------------------------------------------------------------------------
(* response-builder.ts                                                     *)

\* validation_errors.length > 0 ? validation_errors : undefined
ErrorsOrUndefined(validation_errors) ==
    IF Len(validation_errors) > 0
    THEN [t |-> "array", items |-> validation_errors]
    ELSE Undefined

ProcessMessageResult(handled, response_text, input) ==
    [handled           |-> handled,
     response_text     |-> response_text,
     new_state         |-> input.new_state,
     executed_actions  |-> input.executed_actions,
     validation_errors |-> ErrorsOrUndefined(input.validation_errors)]

\* the builder without its first rule
buildResponse_withoutOverrideRule(input) ==
    IF ~Falsy(input.response_text) /\ Length(Trim(input.response_text.s)) > 0
    THEN ProcessMessageResult(TRUE, input.response_text, input)
    ELSE ProcessMessageResult(FALSE, Null, input)

\* input is [human_override, response_text, new_state, executed_actions,
\* validation_errors]; response_text is Null or a string
buildResponse(input) ==
    IF input.human_override
    THEN ProcessMessageResult(TRUE, Null, input)
    ELSE IF ~Falsy(input.response_text) /\ Length(Trim(input.response_text.s)) > 0
    THEN ProcessMessageResult(TRUE, input.response_text, input)
    ELSE ProcessMessageResult(FALSE, Null, input)

-----------------------------------------------------------------------------
(* event-detector.ts                                                       *)

\* the customer messages of the model
Messages ==
    {"Hola", "quiero hablar con un ASESOR, hola", "ya no quiero, ya transferi",
     "2 de maracuya"}

\* message.toLowerCase()
ToLowerCase(message) ==
    CASE message = "Hola" ->
            "hola"
      [] message = "quiero hablar con un ASESOR, hola" ->
            "quiero hablar con un asesor, hola"
      [] message = "Buenos dias, Ya no quiero" ->
            "buenos dias, ya no quiero"
      [] message = "buenas tardes, ya Transferi" ->
            "buenas tardes, ya transferi"
      [] message = "Hola, un ASESOR por favor" ->
            "hola, un asesor por favor"
      [] message = "Ya no quiero, necesito un Humano" ->
            "ya no quiero, necesito un humano"
      [] message = "ya Transferi, quiero hablar con alguien" ->
            "ya transferi, quiero hablar con alguien"
      [] message = "Buenos dias, quiero cancelar pedido, ya pague" ->
            "buenos dias, quiero cancelar pedido, ya pague"
      [] message = "buenas tardes, Ya no quiero, un ASESOR por favor" ->
            "buenas tardes, ya no quiero, un asesor por favor"
      [] message = "Hola, ya Transferi, necesito un Humano" ->
            "hola, ya transferi, necesito un humano"
      [] message = "Buenos dias, Ya no quiero, ya Transferi, un ASESOR por favor" ->
            "buenos dias, ya no quiero, ya transferi, un asesor por favor"
      [] message = "Buenos dias" ->
            "buenos dias"
      [] message = "Ya no quiero" ->
            "ya no quiero"
      [] message = "ya Transferi" ->
            "ya transferi"
      [] message = "un ASESOR por favor" ->
            "un asesor por favor"
      [] message = "necesito un Humano" ->
            "necesito un humano"
      [] message = "vengo de Holanda" ->
            "vengo de holanda"
      [] OTHER -> message

\* messageLower.includes(pattern), pattern one of the detector's patterns
\* (written without their accents: pague, transferi, buenos dias)
Includes(messageLower, pattern) ==
    CASE messageLower = "hola" ->
            pattern \in {"hola"}
      [] messageLower = "quiero hablar con un asesor, hola" ->
            pattern \in {"asesor", "hola"}
      [] messageLower = "ya no quiero, ya transferi" ->
            pattern \in {"transferi", "ya no quiero"}
      [] messageLower = "quiero cancelar pedido" ->
            pattern \in {"cancelar pedido"}
      [] messageLower = "ya pague" ->
            pattern \in {"pague"}
      [] messageLower = "quiero hablar con alguien" ->
            pattern \in {"hablar con alguien"}
      [] messageLower = "buenos dias, ya no quiero" ->
            pattern \in {"ya no quiero", "buenos dias"}
      [] messageLower = "buenas tardes, ya transferi" ->
            pattern \in {"transferi", "buenas tardes"}
      [] messageLower = "hola, un asesor por favor" ->
            pattern \in {"asesor", "hola"}
      [] messageLower = "quiero cancelar pedido, ya pague" ->
            pattern \in {"pague", "cancelar pedido"}
      [] messageLower = "ya no quiero, necesito un humano" ->
            pattern \in {"humano", "ya no quiero"}
      [] messageLower = "ya transferi, quiero hablar con alguien" ->
            pattern \in {"hablar con alguien", "transferi"}
      [] messageLower = "buenos dias, quiero cancelar pedido, ya pague" ->
            pattern \in {"pague", "cancelar pedido", "buenos dias"}
      [] messageLower = "buenas tardes, ya no quiero, un asesor por favor" ->
            pattern \in {"asesor", "ya no quiero", "buenas tardes"}
      [] messageLower = "hola, ya transferi, necesito un humano" ->
            pattern \in {"humano", "transferi", "hola"}
      [] messageLower = "quiero cancelar pedido, ya pague, quiero hablar con alguien" ->
            pattern \in {"hablar con alguien", "pague", "cancelar pedido"}
      [] messageLower = "buenos dias, ya no quiero, ya transferi, un asesor por favor" ->
            pattern \in {"asesor", "transferi", "ya no quiero", "buenos dias"}
      [] messageLower = "buenos dias" ->
            pattern \in {"buenos dias"}
      [] messageLower = "buenas tardes" ->
            pattern \in {"buenas tardes"}
      [] messageLower = "ya no quiero" ->
            pattern \in {"ya no quiero"}
      [] messageLower = "ya transferi" ->
            pattern \in {"transferi"}
      [] messageLower = "un asesor por favor" ->
            pattern \in {"asesor"}
      [] messageLower = "necesito un humano" ->
            pattern \in {"humano"}
      [] messageLower = "una asesoria" ->
            pattern \in {"asesor"}
      [] messageLower = "vengo de holanda" ->
            pattern \in {"hola"}
      [] OTHER -> FALSE

\* a detector that looks for the greeting before the request for a person
detectEvents_greetingFirst(input) ==
    IF input.human_override THEN <<>>
    ELSE
    LET messageLower == ToLowerCase(input.customer_message)
    IN (IF Includes(messageLower, "hola") THEN <<"GREETING_RECEIVED">> ELSE <<>>)
       \o (IF Includes(messageLower, "asesor") THEN <<"ESCALATION_REQUESTED">>
           ELSE <<>>)

\* input is [customer_message, has_image, human_override]
detectEvents(input) ==
    IF input.human_override THEN <<>>
    ELSE
    LET messageLower == ToLowerCase(input.customer_message)
        escalation ==
            IF \/ Includes(messageLower, "hablar con alguien")
               \/ Includes(messageLower, "asesor")
               \/ Includes(messageLower, "humano")
            THEN <<"ESCALATION_REQUESTED">> ELSE <<>>
        payment ==
            IF \/ input.has_image
               \/ Includes(messageLower, "pague")
               \/ Includes(messageLower, "transferi")
            THEN <<"PAYMENT_PROOF_RECEIVED">> ELSE <<>>
        cancelled ==
            IF \/ Includes(messageLower, "cancelar pedido")
               \/ Includes(messageLower, "ya no quiero")
            THEN <<"ORDER_CANCELLED">> ELSE <<>>
        greeting ==
            IF \/ Includes(messageLower, "hola")
               \/ Includes(messageLower, "buenos dias")
               \/ Includes(messageLower, "buenas tardes")
            THEN <<"GREETING_RECEIVED">> ELSE <<>>
    IN escalation \o payment \o cancelled \o greeting

-----------------------------------------------------------------------------
(* state-loader.ts: the gateway to the database                             *)

NoRow == [t |-> "no row"]

\* the column keeps the whole LlmResponse; the engine never reads it back, and
\* the model keeps only that a response is stored
StoredResponse == [t |-> "object"]

\* the row createInitialState upserts
InitialRow == DEFAULT_CONVERSATION_STATE

\* the row after loadConversationState: created when it did not exist
RowAfterLoad(row) == IF row = NoRow THEN InitialRow ELSE row

\* what loadConversationState returns for the row
loadConversationState(row) ==
    IF row = NoRow THEN DEFAULT_CONVERSATION_STATE
    ELSE [fsm_state         |-> row.fsm_state,
          human_override    |-> row.human_override,
          human_override_at |-> row.human_override_at,
          cart_json         |-> row.cart_json,
          pending_order_id  |-> row.pending_order_id,
          last_llm_response |-> row.last_llm_response]

\* the row after saveConversationState(params, state): the fields of the partial
\* state are written, the others kept; no row matches when there is none
saveConversationState(row, state) ==
    IF row = NoRow THEN NoRow
    ELSE [f \in DOMAIN row |-> IF f \in DOMAIN state THEN state[f] ELSE row[f]]

\* the partial state setHumanOverride saves
setHumanOverride(row, enabled, now) ==
    saveConversationState(row,
        [human_override    |-> enabled,
         human_override_at |-> IF enabled THEN Str(now) ELSE Null])

\* the rows insertActionHistoryBatch inserts
insertActionHistoryBatch(table, records) == table \o records

-----------------------------------------------------------------------------
(* Bounds and inputs of the model                                          *)

\* a new invocation starts only while no cart line holds more than this
\* (ADD_TO_CART merges without a limit, so the quantities have to be capped)
MaxLineQty == 100
\* the rows of action_history a behaviour that keeps the table may reach
MaxHistory == 3
\* actions in one proposal of the generation component (the program allows 5)
MaxProposalLen == 2

\* the catalog: two active products; PX is no product of the catalog
Catalog(price1) ==
    << [id |-> "P1", name |-> "Maracuya", price |-> price1, active |-> TRUE],
       [id |-> "P2", name |-> "Matcha", price |-> 29, active |-> TRUE] >>

\* the prices the merchant gives product P1
PriceChoices == {30, 35}

\* what new Date().toISOString() returns
Timestamps == {"2025-01-21T10:00:00Z"}

\* the actions the generation component proposes in the runs of the model
PipelineActions ==
    { Action("ADD_TO_CART", Params(Str("P1"), Num(60))),
      Action("ADD_TO_CART", Params(Str("P2"), Num(100))),
      Action("ADD_TO_CART", Params(Str("PX"), Num(1))),
      Action("UPDATE_QUANTITY", Params(Str("P1"), Num(100))),
      Action("REMOVE_ITEM", Params(Str("P1"), Undefined)),
      Action("CLEAR_CART", NoParams),
      Action("REVIEW_ORDER", NoParams),
      Action("CONFIRM_ORDER", NoParams),
      Action("CANCEL_ORDER", Undefined),
      Action("ESCALATE", NoParams),
      Action("REPLY", NoParams) }

Proposals ==
    UNION { [1..n -> PipelineActions] : n \in 1..MaxProposalLen }

\* what the generation call does in the runs of the model
PipelineRaws ==
    { LlmValue(ResponseObject(Array(p), Str("ok"), Undefined, Undefined)) :
        p \in Proposals }
    \cup
    { LlmThrows,
      LlmString("", Garbage, ""),
      LlmString("FENCEjson",
                ResponseObject(Array(<<Action("REPLY", NoParams)>>), Str("ok"),
                               Str("CHECKOUT"), Str("why")),
                "FENCE"),
      LlmValue(ResponseObject(Array(<<Action("MODIFY_PRICE", NoParams)>>), Str("ok"),
                              Undefined, Undefined)),
      LlmValue(ResponseObject(Array(<<Action("CLEAR_CART", NoParams)>>), Str(" "),
                              Undefined, Undefined)),
      LlmValue(ResponseObject(
                Array(<<Action("ADD_TO_CART", Params(Str("P1"), Num(60)))>>), Str("ok"),
                Str("COMPLETED"), Undefined)) }

-----------------------------------------------------------------------------
(* index.ts: processMessage                                                *)

NoRun ==
    [pc                |-> "idle",
     customer_message  |-> "",
     conversationState |-> Null,
     products          |-> <<>>,
     detectedEvents    |-> <<>>,
     llm_called        |-> FALSE,
     llmResponse       |-> Null,
     validActions      |-> <<>>,
     validationErrors  |-> <<>>,
     i                 |-> 0,
     state             |-> Null,
     executed_actions  |-> <<>>,
     result            |-> Null]

Threw(error) == [threw |-> error]

\* rejected.map((r) => r.error).filter((e) => !!e)
RECURSIVE ErrorsOf(_)
ErrorsOf(rejected) ==
    IF rejected = <<>> THEN <<>>
    ELSE IF Falsy(Head(rejected).error) THEN ErrorsOf(Tail(rejected))
    ELSE <<Head(rejected).error>> \o ErrorsOf(Tail(rejected))

\* a save that prefers the state the generation output suggests
SavedState_preferSuggested(r) ==
    [fsm_state         |-> r.llmResponse.suggested_state.s,
     cart_json         |-> r.state.cart_json,
     human_override    |-> r.state.human_override,
     human_override_at |-> r.state.human_override_at,
     last_llm_response |-> StoredResponse]

\* the partial state processMessage saves
SavedState(r) ==
    [fsm_state         |-> r.state.fsm_state,
     cart_json         |-> r.state.cart_json,
     human_override    |-> r.state.human_override,
     human_override_at |-> r.state.human_override_at,
     last_llm_response |-> StoredResponse]

\* the records processMessage builds for the executed actions
RECURSIVE ActionHistoryRecords(_, _, _)
ActionHistoryRecords(executed, previousState, finalState) ==
    IF executed = <<>> THEN <<>>
    ELSE << [action_type      |-> Head(executed).type.s,
             action_payload   |-> IF Falsy(Head(executed).params)
                                  THEN [t |-> "object"] ELSE Head(executed).params,
             validated        |-> TRUE,
             executed         |-> TRUE,
             fsm_state_before |-> previousState,
             fsm_state_after  |-> finalState] >>
         \o ActionHistoryRecords(Tail(executed), previousState, finalState)

\* step 10 reads validation_errors, which no declaration binds
ReferenceError == "ReferenceError: validation_errors is not defined"

Settled == {"idle", "done", "threw"}

\* an invocation that catches the error and returns a result that is not handled
Raise_caughtAndReturned(error) ==
    [NoRun EXCEPT !.pc = "done",
                  !.result = [handled |-> FALSE, response_text |-> Null,
                              new_state |-> "IDLE", executed_actions |-> <<>>,
                              validation_errors |-> Undefined]]

\* the invocation ended by raising error; its locals are gone
Raise(error) == [NoRun EXCEPT !.pc = "threw", !.result = Threw(error)]

\* a message arrives and processMessage is called
StartRun(message) ==
    /\ run.pc \in Settled
    /\ db # NoRow =>
            \A i \in 1..Len(db.cart_json.items) :
                db.cart_json.items[i].quantity <= MaxLineQty
    /\ mode.audit => Len(action_history) < MaxHistory
    /\ run' = [NoRun EXCEPT !.pc = "loading", !.customer_message = message]
    /\ UNCHANGED <<db, products, action_history, mode, probe>>

\* steps 1 to 3: loadFullState resolves; events; the override check
LoadFullState ==
    /\ run.pc = "loading"
    /\ \E failure \in {"none", "state", "catalog"} :
        /\ db' = IF failure = "state" THEN db ELSE RowAfterLoad(db)
        /\ IF failure # "none"
           THEN run' = Raise("Failed to load")
           ELSE
           LET conversationState == loadConversationState(db)
               detectedEvents ==
                   detectEvents([customer_message |-> run.customer_message,
                                 has_image        |-> FALSE,
                                 human_override   |-> conversationState.human_override])
               loaded == [run EXCEPT !.conversationState = conversationState,
                                     !.products = products,
                                     !.detectedEvents = detectedEvents]
           IN
           IF conversationState.human_override
           THEN run' = [loaded EXCEPT
                    !.pc = "done",
                    !.result = buildResponse(
                        [human_override    |-> TRUE,
                         response_text     |-> Null,
                         new_state         |-> conversationState.fsm_state,
                         executed_actions  |-> <<>>,
                         validation_errors |-> <<>>])]
           ELSE run' = [loaded EXCEPT !.pc = "history"]
    /\ UNCHANGED <<products, action_history, mode, probe>>

\* step 4: loadRecentHistory resolves; the generation component is called
LoadRecentHistory ==
    /\ run.pc = "history"
    /\ \E ok \in BOOLEAN :
        run' = IF ok
               THEN [run EXCEPT !.pc = "llm", !.llm_called = TRUE]
               ELSE Raise("Failed to load recent history")
    /\ UNCHANGED <<db, products, action_history, mode, probe>>

\* a pipeline in which a detected request for a person sets the override by
\* itself, before the actions are executed
LlmReturns_eventsEscalate(raw) ==
    /\ run.pc = "llm"
    /\ LET llmResponse == runLlmOrchestrator(
               [current_state |-> run.conversationState.fsm_state], raw)
           checked == getValidActions(llmResponse.proposed_actions,
               [currentState |-> run.conversationState.fsm_state,
                cart         |-> run.conversationState.cart_json])
       IN run' = [run EXCEPT
               !.pc = "executing",
               !.customer_message = "",
               !.detectedEvents = <<>>,
               !.llmResponse = llmResponse,
               !.validActions = checked.valid,
               !.validationErrors = ErrorsOf(checked.rejected),
               !.i = 1,
               !.state =
                    IF \E k \in 1..Len(run.detectedEvents) :
                            run.detectedEvents[k] = "ESCALATION_REQUESTED"
                    THEN executeEscalate(run.conversationState,
                                         CHOOSE now \in Timestamps : TRUE).state
                    ELSE cloneState(run.conversationState),
               !.executed_actions = <<>>]
    /\ UNCHANGED <<db, products, action_history, mode, probe>>

\* steps 5 and 6: the generation call settles; the proposal is validated against
\* the loaded state; executeActions starts on a copy of the loaded state.  The
\* message and the events are not read after the call and are not kept.
LlmReturns(raw) ==
    /\ run.pc = "llm"
    /\ LET llmResponse == runLlmOrchestrator(
               [current_state |-> run.conversationState.fsm_state], raw)
           checked == getValidActions(llmResponse.proposed_actions,
               [currentState |-> run.conversationState.fsm_state,
                cart         |-> run.conversationState.cart_json])
       IN run' = [run EXCEPT
               !.pc = "executing",
               !.customer_message = "",
               !.detectedEvents = <<>>,
               !.llmResponse = llmResponse,
               !.validActions = checked.valid,
               !.validationErrors = ErrorsOf(checked.rejected),
               !.i = 1,
               !.state = cloneState(run.conversationState),
               !.executed_actions = <<>>]
    /\ UNCHANGED <<db, products, action_history, mode, probe>>

\* step 7, one turn of the loop of executeActions
ExecStep(now) ==
    /\ run.pc = "executing"
    /\ run.i <= Len(run.validActions)
    /\ LET action == run.validActions[run.i]
           result == executeSingleAction(action, run.state, run.products, now)
       IN run' = [run EXCEPT
               !.state = result.state,
               !.executed_actions =
                    IF result.executed THEN Append(@, action) ELSE @,
               !.i = @ + 1]
    /\ UNCHANGED <<db, products, action_history, mode, probe>>

\* after a write that succeeded: the records are inserted when there are any,
\* and then step 10 raises the ReferenceError
AfterSave(r) ==
    IF Len(r.executed_actions) > 0
    THEN [r EXCEPT !.pc = "inserting"]
    ELSE Raise(ReferenceError)

\* step 8: saveConversationState resolves
Save ==
    /\ run.pc = "executing"
    /\ run.i > Len(run.validActions)
    /\ \E ok \in BOOLEAN :
        IF ok
        THEN /\ db' = saveConversationState(db, SavedState(run))
             /\ run' = AfterSave(run)
        ELSE /\ db' = db
             /\ run' = Raise("Failed to save conversation state")
    /\ UNCHANGED <<products, action_history, mode, probe>>

\* step 9: insertActionHistoryBatch resolves; step 10
InsertHistory ==
    /\ run.pc = "inserting"
    /\ \E ok \in BOOLEAN :
        IF ok
        THEN /\ action_history' =
                    IF mode.audit
                    THEN insertActionHistoryBatch(action_history,
                            ActionHistoryRecords(run.executed_actions,
                                run.conversationState.fsm_state, run.state.fsm_state))
                    ELSE action_history
             /\ run' = Raise(ReferenceError)
        ELSE /\ action_history' = action_history
             /\ run' = Raise("Failed to insert action history batch")
    /\ UNCHANGED <<db, products, mode, probe>>

-----------------------------------------------------------------------------
(* The environment: the operator's dashboard and the merchant's catalog     *)

\* the operator switches the override (setHumanOverride), between the runs or,
\* where the specification lets it, during a run
OperatorSetsOverride(enabled, now) ==
    /\ mode.interleave \/ run.pc \in Settled
    /\ db # NoRow
    /\ db' = setHumanOverride(db, enabled, now)
    /\ db' # db
    /\ UNCHANGED <<products, action_history, run, mode, probe>>

\* the merchant changes the price of product P1
MerchantSetsPrice(price) ==
    /\ run.pc \in Settled
    /\ products' = Catalog(price)
    /\ products' # products
    /\ UNCHANGED <<db, action_history, run, mode, probe>>

NoProbe == [fn |-> "none"]

Init ==
    /\ db = NoRow
    /\ products = Catalog(30)
    /\ action_history = <<>>
    /\ run = NoRun
    /\ mode = [interleave |-> FALSE, audit |-> FALSE]
    /\ probe = NoProbe

Next ==
    \/ \E message \in Messages : StartRun(message)
    \/ LoadFullState
    \/ LoadRecentHistory
    \/ \E raw \in PipelineRaws : LlmReturns(raw)
    \/ \E now \in Timestamps : ExecStep(now)
    \/ Save
    \/ InsertHistory
    \/ \E enabled \in BOOLEAN, now \in Timestamps : OperatorSetsOverride(enabled, now)
    \/ \E price \in PriceChoices : MerchantSetsPrice(price)

Spec == Init /\ [][Next]_vars

\* the same engine with an operator who may act while an invocation is in flight
InitConc ==
    /\ db = NoRow
    /\ products = Catalog(30)
    /\ action_history = <<>>
    /\ run = NoRun
    /\ mode = [interleave |-> TRUE, audit |-> FALSE]
    /\ probe = NoProbe

SpecConc == InitConc /\ [][Next]_vars

\* the same engine with the action_history table kept
InitAudit ==
    /\ db = NoRow
    /\ products = Catalog(30)
    /\ action_history = <<>>
    /\ run = NoRun
    /\ mode = [interleave |-> FALSE, audit |-> TRUE]
    /\ probe = NoProbe

\* the proposals of the runs that keep the table
AuditActions ==
    { Action("ADD_TO_CART", Params(Str("P1"), Num(60))),
      Action("ADD_TO_CART", Params(Str("PX"), Num(1))),
      Action("REMOVE_ITEM", Params(Str("P1"), Undefined)),
      Action("CANCEL_ORDER", Undefined),
      Action("ESCALATE", NoParams) }

AuditRaws ==
    { LlmValue(ResponseObject(Array(p), Str("ok"), Undefined, Undefined)) :
        p \in UNION { [1..n -> AuditActions] : n \in 1..MaxProposalLen } }
    \cup { LlmThrows }

NextAudit ==
    \/ \E message \in Messages : StartRun(message)
    \/ LoadFullState
    \/ LoadRecentHistory
    \/ \E raw \in AuditRaws : LlmReturns(raw)
    \/ \E now \in Timestamps : ExecStep(now)
    \/ Save
    \/ InsertHistory
    \/ \E enabled \in BOOLEAN, now \in Timestamps : OperatorSetsOverride(enabled, now)

SpecAudit == InitAudit /\ [][NextAudit]_vars

\* the orders a conversation may refer to
OrderIds == {"O1"}

\* the order subsystem records the order in progress: a caller of
\* saveConversationState with pending_order_id, between the runs
OrderPlaced(order) ==
    /\ run.pc \in Settled
    /\ db # NoRow
    /\ db.pending_order_id = NoOrder
    /\ db' = saveConversationState(db, [pending_order_id |-> order])
    /\ UNCHANGED <<products, action_history, run, mode, probe>>

\* the same engine with the order subsystem writing the reference
NextOrders ==
    \/ Next
    \/ \E order \in OrderIds : OrderPlaced(order)

SpecOrders == Init /\ [][NextOrders]_vars

-----------------------------------------------------------------------------
(* Direct calls of the validator and the executor: one action, validated   *)
(* against a state and a cart, and what was accepted executed.             *)

ProbeTypes == ALLOWED_ACTIONS \cup PROHIBITED_ACTIONS \cup {"GIVE_REFUND"}

ProbeProductIds == {Undefined, Str(""), Str(" "), Str("P1"), Str("P2"), Str("PX")}

ProbeQuantities ==
    {Undefined, Null, NaN, Str("2"), Half(1), Half(0), Num(0 - 1), Num(0), Num(1),
     Num(2), Num(100), Num(101)}

ProbeParams ==
    {Undefined, Null}
    \cup { Params(pid, qty) : pid \in ProbeProductIds, qty \in ProbeQuantities }

ProbeActions == { Action(type, params) : type \in ProbeTypes, params \in ProbeParams }

Line(id, name, quantity, unit_price) ==
    [product_id |-> id, name |-> name, quantity |-> quantity,
     unit_price |-> unit_price, subtotal |-> quantity * unit_price]

CartOf(items) ==
    [items |-> items, total |-> SumSubtotals(items), currency |-> "BOB"]

ProbeCarts ==
    { DEFAULT_CART,
      CartOf(<<Line("P1", "Maracuya", 2, 30)>>),
      CartOf(<<Line("P2", "Matcha", 100, 29)>>),
      CartOf(<<Line("P2", "Matcha", 1, 29), Line("P1", "Maracuya", 3, 30)>>) }

ProbeStateOf(fsm_state, cart) ==
    [DEFAULT_CONVERSATION_STATE EXCEPT !.fsm_state = fsm_state, !.cart_json = cart]

InitValidator ==
    /\ db = NoRow
    /\ products = Catalog(30)
    /\ action_history = <<>>
    /\ run = NoRun
    /\ mode = [interleave |-> FALSE, audit |-> FALSE]
    /\ \E action \in ProbeActions, fsm_state \in FSM_STATES, cart \in ProbeCarts :
        probe = [fn      |-> "validateAction",
                 pc      |-> "call",
                 action  |-> action,
                 state   |-> ProbeStateOf(fsm_state, cart),
                 result  |-> Null,
                 outcome |-> Null]

\* validateAction, then getValidActions and executeActions as processMessage
\* chains them
CallValidator ==
    /\ probe.fn = "validateAction"
    /\ probe.pc = "call"
    /\ \E now \in Timestamps :
        LET context == [currentState |-> probe.state.fsm_state,
                        cart         |-> probe.state.cart_json]
            checked == getValidActions(<<probe.action>>, context)
        IN probe' = [probe EXCEPT
                !.pc = "returned",
                !.result = validateAction(probe.action, context),
                !.outcome = executeActions(
                    [actions         |-> checked.valid,
                     current_state   |-> probe.state,
                     product_catalog |-> products], now)]
    /\ UNCHANGED <<db, products, action_history, run, mode>>

SpecValidator == InitValidator /\ [][CallValidator]_vars

-----------------------------------------------------------------------------
(* Direct calls of runLlmOrchestrator on what the generation call may do.   *)

Params4(pid, name, qty, reason) ==
    [t |-> "object", product_id |-> pid, product_name |-> name,
     quantity |-> qty, reason |-> reason]

LlmParams ==
    {Undefined, Null, Str("x"), Array(<<>>)}
    \cup { Params4(pid, Undefined, qty, Undefined) :
            pid \in {Undefined, Null, Str("P1"), Num(7)},
            qty \in {Undefined, Null, NaN, Str("2"), Half(1), Num(0), Num(1),
                     Num(100), Num(101)} }
    \cup { Params4(Str("P1"), name, Num(1), reason) :
            name \in {Str("Maracuya"), Num(7)}, reason \in {Str("why"), Num(7)} }

LlmTypes ==
    {Undefined, Num(1), Str("REPLY"), Str("reply"), Str("ADD_TO_CART"),
     Str("MODIFY_PRICE"), Str("DISABLE_OVERRIDE"), Str("GIVE_REFUND")}

LlmActions ==
    {Null, Str("REPLY"), Array(<<>>)}
    \cup { [t |-> "object", type |-> type, params |-> params] :
            type \in LlmTypes, params \in LlmParams }

Reply == Action("REPLY", NoParams)

LlmActionLists ==
    { <<>> }
    \cup { [i \in 1..n |-> Reply] : n \in 1..(MAX_ACTIONS + 1) }
    \cup { <<a>> : a \in LlmActions }
    \cup { <<Reply, a>> : a \in LlmActions }

LlmTexts == {Undefined, Null, Num(3), Str(""), Str("ok"), Str(Text500), Str(Text501)}

LlmSuggested ==
    {Undefined, Null, Num(1), Str("BOGUS"), Str("checkout")}
    \cup { Str(st) : st \in FSM_STATES }

LlmReasonings == {Undefined, Str("why"), Num(7)}

LlmObjects ==
    { ResponseObject(Array(l), Str("ok"), Undefined, Undefined) : l \in LlmActionLists }
    \cup { ResponseObject(al, tx, sg, rs) :
            al \in {Undefined, Str("x"), Array(<<Reply>>)},
            tx \in LlmTexts, sg \in LlmSuggested, rs \in LlmReasonings }

LlmJson ==
    { Garbage, Null, Num(5), Str("x"), Array(<<>>),
      ResponseObject(Array(<<Reply>>), Str("ok"), Str("CHECKOUT"), Undefined),
      ResponseObject(Array(<<Reply, Action("MODIFY_PRICE", NoParams)>>), Str("ok"),
                     Undefined, Undefined) }

ProbeRaws ==
    { LlmThrows }
    \cup { LlmValue(v) : v \in LlmObjects \cup {Undefined, Null, Num(5), Array(<<>>)} }
    \cup { LlmString(prefix, json, suffix) :
            prefix \in {"", "FENCEjson", "FENCE", "FENCEJSON", "Here you go:"},
            json \in LlmJson,
            suffix \in {"", "FENCE", "FENCE Anything else?"} }

InitOrchestrator ==
    /\ db = NoRow
    /\ products = Catalog(30)
    /\ action_history = <<>>
    /\ run = NoRun
    /\ mode = [interleave |-> FALSE, audit |-> FALSE]
    /\ \E raw \in ProbeRaws, current_state \in {"IDLE", "CART_OPEN", "HUMAN_TAKEOVER"} :
        probe = [fn     |-> "runLlmOrchestrator",
                 pc     |-> "call",
                 raw    |-> raw,
                 input  |-> [current_state |-> current_state],
                 result |-> Null]

CallOrchestrator ==
    /\ probe.fn = "runLlmOrchestrator"
    /\ probe.pc = "call"
    /\ probe' = [probe EXCEPT
            !.pc = "returned",
            !.result = runLlmOrchestrator(probe.input, probe.raw)]
    /\ UNCHANGED <<db, products, action_history, run, mode>>

SpecOrchestrator == InitOrchestrator /\ [][CallOrchestrator]_vars

-----------------------------------------------------------------------------
(* Repeated calls of the validator on the same arguments                   *)

\* the calls of the validator made one after the other on the same arguments
MaxCalls == 2

\* the arguments are objects the caller keeps: action, state (with its cart)
InitRepeat ==
    /\ db = NoRow
    /\ products = Catalog(30)
    /\ action_history = <<>>
    /\ run = NoRun
    /\ mode = [interleave |-> FALSE, audit |-> FALSE]
    /\ \E action \in ProbeActions, fsm_state \in FSM_STATES, cart \in ProbeCarts :
        probe = [fn     |-> "validate again",
                 action |-> action,
                 state  |-> ProbeStateOf(fsm_state, cart),
                 given  |-> [action |-> action, state |-> ProbeStateOf(fsm_state, cart)],
                 calls  |-> <<>>]

\* validateAction, validateActions and getValidActions are called on the objects
\* as the calls before left them; none of the three assigns to its arguments
CallAgain ==
    /\ probe.fn = "validate again"
    /\ Len(probe.calls) < MaxCalls
    /\ LET context == [currentState |-> probe.state.fsm_state,
                        cart         |-> probe.state.cart_json]
            actions == <<probe.action, Reply>>
       IN probe' = [probe EXCEPT !.calls = Append(@,
                [validateAction  |-> validateAction(probe.action, context),
                 validateActions |-> validateActions(actions, context),
                 getValidActions |-> getValidActions(actions, context)])]
    /\ UNCHANGED <<db, products, action_history, run, mode>>

SpecRepeat == InitRepeat /\ [][CallAgain]_vars

-----------------------------------------------------------------------------
(* Properties of the pipeline                                              *)

\* the sum of the subtotals of the first n lines
RECURSIVE SubtotalsUpTo(_, _)
SubtotalsUpTo(items, n) ==
    IF n = 0 THEN 0 ELSE SubtotalsUpTo(items, n - 1) + items[n].subtotal

CartCoherent(cart) ==
    /\ cart.total = SubtotalsUpTo(cart.items, Len(cart.items))
    /\ \A i \in 1..Len(cart.items) :
        cart.items[i].subtotal = cart.items[i].quantity * cart.items[i].unit_price

\* C1: from the default state, whatever runs of processMessage took place and
\* whatever actions they accepted, the cart (the persisted one and the working
\* one of a run in flight) has total = sum of the line subtotals and, in every
\* line, subtotal = quantity * unit_price.
C1_CartInvariant ==
    /\ db # NoRow => CartCoherent(db.cart_json)
    /\ run.state # Null => CartCoherent(run.state.cart_json)

\* a persisted cart of two lines, one of them merged from two additions
C1_Witness ==
    /\ db # NoRow
    /\ Len(db.cart_json.items) = 2
    /\ \E i \in 1..2 : db.cart_json.items[i].quantity = 120
    /\ db.cart_json.total > 0

HasEscalate(actions) ==
    \E i \in 1..Len(actions) : actions[i].type = Str("ESCALATE")

\* C2: HUMAN_TAKEOVER is sticky.  Once the working fsm_state of the executor is
\* HUMAN_TAKEOVER no later action of the same accepted list moves it to another
\* value, and once the persisted fsm_state is HUMAN_TAKEOVER no later run of
\* processMessage moves it to another value.
C2_HumanTakeoverSticky ==
    [][ /\ (run.pc = "executing" /\ run'.pc = "executing"
            /\ run.state.fsm_state = "HUMAN_TAKEOVER")
                => run'.state.fsm_state = "HUMAN_TAKEOVER"
        /\ (db # NoRow /\ db.fsm_state = "HUMAN_TAKEOVER")
                => db'.fsm_state = "HUMAN_TAKEOVER" ]_vars

PersistedOverride(row) == row # NoRow /\ row.human_override

\* C3: with the runs and the operator's writes serialized, no step of the engine
\* changes the persisted human_override from true to false, and a step of the
\* engine changes it from false to true only in a run in which ESCALATE was
\* executed.  (A step of the engine is a step that moves the run.)
C3_EngineOverrideTransitions ==
    [][ run' # run =>
            /\ PersistedOverride(db) => PersistedOverride(db')
            /\ (~PersistedOverride(db) /\ PersistedOverride(db'))
                    => HasEscalate(run.executed_actions) ]_vars

\* the save of a run that started without the override and executed ESCALATE
C3_Witness ==
    /\ run.pc = "inserting"
    /\ ~run.conversationState.human_override
    /\ HasEscalate(run.executed_actions)
    /\ db.human_override

\* C4: the engine never clears an override the operator set: when the operator
\* sets human_override to true after a run loaded its snapshot and before the
\* run saves, the persisted human_override is still true after the save.
C4_OperatorOverrideSurvivesSave ==
    [][ (/\ run.pc = "executing"
         /\ run'.pc # "executing"
         /\ ~run.conversationState.human_override
         /\ PersistedOverride(db))
            => PersistedOverride(db') ]_vars

\* C5: a run whose loaded state has human_override = true returns handled = true
\* with response_text = null, whatever the customer message, and does not call
\* the generation component.
C5_OverrideSilence ==
    (run.conversationState # Null /\ run.conversationState.human_override)
        => /\ run.pc = "done"
           /\ run.result.handled = TRUE
           /\ run.result.response_text = Null
           /\ ~run.llm_called

\* a run that loaded the override with a message asking for a human
C5_Witness ==
    /\ run.pc = "done"
    /\ run.conversationState.human_override
    /\ run.customer_message = "quiero hablar con un ASESOR, hola"
    /\ run.result.handled = TRUE

-----------------------------------------------------------------------------
(* Properties of the validator and the executor                            *)

Returned(fn) == probe.fn = fn /\ probe.pc = "returned"

TypeIs(types) == \E type \in types : probe.action.type = Str(type)

\* C6: the validator accepts ESCALATE in every one of the 7 states, and the
\* execution of it, from any state, gives fsm_state = HUMAN_TAKEOVER,
\* human_override = true and a human_override_at that is not null.
C6_EscalateAlways ==
    (Returned("validateAction") /\ TypeIs({"ESCALATE"}))
        => /\ probe.result.valid
           /\ probe.outcome.executed_actions = <<probe.action>>
           /\ probe.outcome.new_state.fsm_state = "HUMAN_TAKEOVER"
           /\ probe.outcome.new_state.human_override = TRUE
           /\ probe.outcome.new_state.human_override_at \notin {Null, Undefined}

\* ESCALATE from AWAITING_PAYMENT with a cart
C6_Witness ==
    /\ Returned("validateAction")
    /\ TypeIs({"ESCALATE"})
    /\ probe.state.fsm_state = "AWAITING_PAYMENT"
    /\ Len(probe.state.cart_json.items) = 2
    /\ probe.outcome.new_state.fsm_state = "HUMAN_TAKEOVER"

\* C7: validateAction rejects an action of one of the five prohibited types in
\* every state, for every cart and every params, the reason being the
\* prohibition of that type, and the action leaves the conversation state as
\* it was.
C7_ProhibitedRejected ==
    (Returned("validateAction")
     /\ TypeIs({"MODIFY_PRICE", "APPLY_DISCOUNT", "APPROVE_PAYMENT", "REJECT_PAYMENT",
                "DISABLE_OVERRIDE"}))
        => /\ ~probe.result.valid
           /\ probe.result.error.s = "is prohibited"
           /\ probe.result.error.type = probe.action.type
           /\ probe.outcome.executed_actions = <<>>
           /\ probe.outcome.new_state = probe.state

\* DISABLE_OVERRIDE with params, in HUMAN_TAKEOVER with a cart
C7_Witness ==
    /\ Returned("validateAction")
    /\ TypeIs({"DISABLE_OVERRIDE"})
    /\ probe.action.params = Params(Str("P1"), Num(2))
    /\ probe.state.fsm_state = "HUMAN_TAKEOVER"
    /\ Len(probe.state.cart_json.items) = 1
    /\ ~probe.result.valid

\* the legality matrix of the specification
MatrixStates(type) ==
    CASE type \in {"SHOW_CATALOG", "SHOW_PRODUCT", "REPLY", "CLARIFY", "ESCALATE"} ->
            {"IDLE", "BROWSING", "CART_OPEN", "CHECKOUT", "AWAITING_PAYMENT",
             "COMPLETED", "HUMAN_TAKEOVER"}
      [] type = "ADD_TO_CART" -> {"IDLE", "BROWSING", "CART_OPEN"}
      [] type \in {"UPDATE_QUANTITY", "REMOVE_ITEM", "CLEAR_CART", "REVIEW_ORDER"} ->
            {"CART_OPEN"}
      [] type = "CONFIRM_ORDER" -> {"CHECKOUT"}
      [] type = "CANCEL_ORDER" -> {"CART_OPEN", "CHECKOUT", "AWAITING_PAYMENT"}
      [] OTHER -> {}

\* a product_id is present: a string that is not blank
ProductIdPresent(params) ==
    /\ params.t = "object"
    /\ params.product_id.t = "string"
    /\ params.product_id.s \notin {"", " "}

QuantityInRange(params) ==
    /\ params.t = "object"
    /\ params.quantity.t = "number"
    /\ ~params.quantity.half
    /\ params.quantity.n \in 1..100

ItemPresent(params, cart) ==
    /\ ProductIdPresent(params)
    /\ \E i \in 1..Len(cart.items) : cart.items[i].product_id = params.product_id.s

MatrixChecks(type, params, cart) ==
    CASE type = "SHOW_PRODUCT" -> ProductIdPresent(params)
      [] type = "ADD_TO_CART" -> ProductIdPresent(params) /\ QuantityInRange(params)
      [] type = "UPDATE_QUANTITY" -> ItemPresent(params, cart) /\ QuantityInRange(params)
      [] type = "REMOVE_ITEM" -> ItemPresent(params, cart)
      [] type \in {"CLEAR_CART", "REVIEW_ORDER", "CONFIRM_ORDER"} -> Len(cart.items) > 0
      [] OTHER -> TRUE

C9_BadQuantityRejected ==
    (Returned("validateAction")
     /\ TypeIs({"ADD_TO_CART", "UPDATE_QUANTITY"})
     /\ ~QuantityInRange(probe.action.params))
        => /\ ~probe.result.valid
           /\ probe.outcome.executed_actions = <<>>
           /\ probe.outcome.new_state.cart_json = probe.state.cart_json

\* a quantity of 101 for a product of the cart, in CART_OPEN
C9_Witness ==
    /\ Returned("validateAction")
    /\ TypeIs({"UPDATE_QUANTITY"})
    /\ probe.action.params = Params(Str("P1"), Num(101))
    /\ probe.state.fsm_state = "CART_OPEN"
    /\ Len(probe.state.cart_json.items) = 1
    /\ probe.result.error.s = "quantity must be between 1 and 100"

-----------------------------------------------------------------------------
(* Properties of the orchestrator                                          *)

IsFallback(response, current_state) ==
    /\ response.proposed_actions = <<>>
    /\ response.response_text = Str(FALLBACK_RESPONSE_TEXT)
    /\ response.suggested_state = Str(current_state)

\* params of the contract: none, or a bag whose fields have their types and ranges
ContractParams(params) ==
    \/ params \in {Undefined, Null}
    \/ /\ params.t = "object"
       /\ params.product_id = Undefined \/ params.product_id.t = "string"
       /\ params.product_name = Undefined \/ params.product_name.t = "string"
       /\ params.reason = Undefined \/ params.reason.t = "string"
       /\ \/ params.quantity = Undefined
          \/ /\ params.quantity.t = "number"
             /\ ~params.quantity.half
             /\ params.quantity.n \in 1..100
    \/ params.t = "array"

ContractAction(action) ==
    /\ action.t = "object"
    /\ action.type.t = "string"
    /\ action.type.s \in
        {"SHOW_CATALOG", "SHOW_PRODUCT", "ADD_TO_CART", "UPDATE_QUANTITY",
         "REMOVE_ITEM", "CLEAR_CART", "REVIEW_ORDER", "CONFIRM_ORDER",
         "CANCEL_ORDER", "REPLY", "CLARIFY", "ESCALATE"}
    /\ ContractParams(action.params)

SatisfiesContract(response) ==
    /\ Len(response.proposed_actions) \in 1..5
    /\ \A i \in 1..Len(response.proposed_actions) :
        ContractAction(response.proposed_actions[i])
    /\ response.response_text.t = "string"
    /\ Length(response.response_text.s) <= 500
    /\ response.suggested_state.t = "string"
    /\ response.suggested_state.s \in FSM_STATES

\* the value the generation call carried, if it carried one
Carried(raw) ==
    IF raw.k = "value" THEN raw.v ELSE IF raw.k = "string" THEN raw.json ELSE Null

-----------------------------------------------------------------------------
(* Properties of the executor inside the runs                              *)

\* the step is one turn of the loop of executeActions
IsExecStep == run.pc = "executing" /\ run'.pc = "executing" /\ run'.i = run.i + 1

\* the turn executed its action
StepExecuted == Len(run'.executed_actions) = Len(run.executed_actions) + 1

\* the price of the product in the catalog the run loaded
PriceIn(catalog, product_id) ==
    LET i == CHOOSE i \in 1..Len(catalog) : catalog[i].id = product_id
    IN catalog[i].price

\* C11: after an executed ADD_TO_CART for a product, the cart line of the product
\* has the unit_price the product has in the catalog given to the execution,
\* for a line that was appended and for a line the quantity was merged into.
C11_AddUsesCatalogPrice ==
    [][ (/\ IsExecStep
         /\ run.validActions[run.i].type = Str("ADD_TO_CART")
         /\ StepExecuted)
            => LET product_id == run.validActions[run.i].params.product_id.s
                   items == run'.state.cart_json.items
               IN \A k \in 1..Len(items) :
                    items[k].product_id = product_id
                        => items[k].unit_price = PriceIn(run.products, product_id) ]_vars

\* C12: whatever runs took place and whatever actions they accepted, every line
\* of the cart, persisted or working, has a quantity in 1..100, a line whose
\* quantity was merged from several ADD_TO_CART included.
C12_LineQuantityInRange ==
    /\ db # NoRow =>
        \A k \in 1..Len(db.cart_json.items) : db.cart_json.items[k].quantity \in 1..100
    /\ run.state # Null =>
        \A k \in 1..Len(run.state.cart_json.items) :
            run.state.cart_json.items[k].quantity \in 1..100

\* the actions of a proposal that validateAction accepts, in their order
RECURSIVE AcceptedOf(_, _)
AcceptedOf(actions, context) ==
    IF actions = <<>> THEN <<>>
    ELSE IF validateAction(Head(actions), context).valid
         THEN <<Head(actions)>> \o AcceptedOf(Tail(actions), context)
         ELSE AcceptedOf(Tail(actions), context)

\* what executing only the accepted actions of the run's proposal gives
OfAcceptedOnly(r) ==
    executeActions(
        [actions |-> AcceptedOf(r.llmResponse.proposed_actions,
                        [currentState |-> r.conversationState.fsm_state,
                         cart         |-> r.conversationState.cart_json]),
         current_state   |-> r.conversationState,
         product_catalog |-> r.products],
        CHOOSE now \in Timestamps : TRUE)

\* the step is the save of the run, and the write succeeded
IsSave ==
    /\ run.pc = "executing"
    /\ run'.pc # "executing"
    /\ run'.result # Threw("Failed to save conversation state")

\* C13: rejected actions have no effect and do not stop the run.  The state a
\* run saves, and its executed_actions, are what executing only the accepted
\* actions of the proposal, in their order, gives; when every action was
\* rejected nothing was executed and fsm_state, cart and override are saved as
\* they were loaded.
C13_RejectedHaveNoEffect ==
    [][ IsSave =>
            LET expected == OfAcceptedOnly(run)
            IN /\ run.executed_actions = expected.executed_actions
               /\ run.state = expected.new_state
               /\ db'.fsm_state = expected.new_state.fsm_state
               /\ db'.cart_json = expected.new_state.cart_json
               /\ db'.human_override = expected.new_state.human_override
               /\ run.validActions = <<>> =>
                    /\ run.executed_actions = <<>>
                    /\ db'.fsm_state = run.conversationState.fsm_state
                    /\ db'.cart_json = run.conversationState.cart_json
                    /\ db'.human_override = run.conversationState.human_override ]_vars

\* a run saved after a proposal whose first action was rejected and whose
\* second was executed
C13_Witness ==
    /\ run.pc = "inserting"
    /\ Len(run.llmResponse.proposed_actions) = 2
    /\ run.validActions = <<run.llmResponse.proposed_actions[2]>>
    /\ run.executed_actions = run.validActions
    /\ Len(run.validationErrors) = 1
    /\ db.fsm_state = "CART_OPEN"
    /\ run.conversationState.fsm_state = "IDLE"

-----------------------------------------------------------------------------
(* Properties of the writes and of the result of a run                     *)

SaveFailed == Threw("Failed to save conversation state")
InsertFailed == Threw("Failed to insert action history batch")

\* C14: there is no partial commit.  When a gateway write of a run fails, the
\* state save or the append to action_history, nothing of the run is persisted:
\* the conversation state is the one the run loaded and the table has none of
\* the run's records.
C14_NoPartialCommit ==
    [][ (run.pc \in {"executing", "inserting"}
         /\ run'.result \in {SaveFailed, InsertFailed})
            => /\ loadConversationState(db') = run.conversationState
               /\ action_history' = action_history ]_vars

\* the loop of executeActions has ended
LoopEnded == run.pc = "inserting" \/ (run.pc = "executing" /\ run.i > Len(run.validActions))

\* C15: every action the validator accepted in a run is executed in that run:
\* when the executor has ended, executed_actions is the accepted list, the same
\* actions in the same order.
C15_AcceptedAreExecuted ==
    LoopEnded => run.executed_actions = run.validActions

\* C16: after a run whose last executed action is CANCEL_ORDER (accepted in
\* CART_OPEN, CHECKOUT or AWAITING_PAYMENT) the persisted state has fsm_state
\* IDLE, an empty cart of total 0 and no pending_order_id.
C16_CancelPersisted ==
    [][ (/\ IsSave
         /\ Len(run.executed_actions) > 0
         /\ run.executed_actions[Len(run.executed_actions)].type = Str("CANCEL_ORDER"))
            => /\ db'.fsm_state = "IDLE"
               /\ db'.cart_json.items = <<>>
               /\ db'.cart_json.total = 0
               /\ db'.pending_order_id = NoOrder ]_vars

\* the errors a run ends with when a call of the gateway failed
GatewayFailures ==
    {Threw("Failed to load"), Threw("Failed to load recent history"),
     SaveFailed, InsertFailed}

\* the step ends the invocation, and no call of the gateway failed in it
RunEnds ==
    /\ run.pc \notin Settled
    /\ run'.pc \in Settled
    /\ run'.result \notin GatewayFailures

\* the reasons of the actions of a proposal that validateAction rejects
RECURSIVE ReasonsOf(_, _)
ReasonsOf(actions, context) ==
    IF actions = <<>> THEN <<>>
    ELSE IF validateAction(Head(actions), context).valid
         THEN ReasonsOf(Tail(actions), context)
         ELSE <<validateAction(Head(actions), context).error>>
                \o ReasonsOf(Tail(actions), context)

\* the reasons of the rejections of the run that ends (none before a proposal)
RejectionReasons(r) ==
    IF r.llmResponse = Null THEN <<>>
    ELSE ReasonsOf(r.llmResponse.proposed_actions,
            [currentState |-> r.conversationState.fsm_state,
             cart         |-> r.conversationState.cart_json])

\* C17: the result processMessage returns has in validation_errors the reason
\* of every action the validator rejected in the run, in the order of the
\* proposal, whatever handled and response_text are; the field is absent only
\* when nothing was rejected.
C17_ValidationErrorsReturned ==
    [][ RunEnds =>
            /\ run'.pc = "done"
            /\ run'.result.validation_errors =
                    IF RejectionReasons(run) = <<>> THEN Undefined
                    ELSE Array(RejectionReasons(run)) ]_vars

\* C18: an invocation of processMessage whose gateway calls succeed returns a
\* result, whether the generation call succeeded, gave an output out of
\* contract or threw: it never ends by raising an error.
C18_AlwaysReturns ==
    run.pc = "threw" => run.result \in GatewayFailures

\* C19: a run whose resulting state has human_override = true, loaded so or
\* set by an ESCALATE of the run, returns handled = true with response_text =
\* null, even when the generation output has a text.
C19_OverrideWinsOverText ==
    [][ (/\ RunEnds
         /\ IF run.pc = "loading" THEN run'.conversationState.human_override
            ELSE run.state.human_override)
            => /\ run'.pc = "done"
               /\ run'.result.handled = TRUE
               /\ run'.result.response_text = Null ]_vars

-----------------------------------------------------------------------------
(* Properties of repeated validation                                       *)

\* the actions of a list of results
ActionsOf(results) == [i \in 1..Len(results) |-> results[i].action]

-----------------------------------------------------------------------------
(* Properties of the gateway calls of a run                                *)

\* the step is the one in which the run awaits the gateway call named
Awaits(call) ==
    /\ run' # run
    /\ CASE call = "load"    -> run.pc = "loading"
         [] call = "history" -> run.pc = "history"
         [] call = "save"    -> run.pc = "executing" /\ run.i > Len(run.validActions)
         [] call = "insert"  -> run.pc = "inserting"

\* the invocation ends in this step by raising one of the gateway's errors
PropagatesFailure ==
    /\ run'.pc = "threw"
    /\ run'.result \in GatewayFailures
    /\ run'.conversationState = Null

\* C21: a failure of a gateway call of processMessage (the load of the state or
\* of the catalog, the load of the history, the save of the state, the append to
\* action_history) is never masked: a step that awaits a gateway call either
\* has the effect of the call that succeeded, or ends the invocation with the
\* gateway's error and without a ProcessMessageResult.
C21_GatewayFailuresPropagate ==
    [][ /\ Awaits("load") =>
                \/ /\ run'.conversationState = loadConversationState(db)
                   /\ run'.products = products
                   /\ db' = RowAfterLoad(db)
                \/ PropagatesFailure /\ run'.result = Threw("Failed to load")
        /\ Awaits("history") =>
                \/ run'.pc = "llm"
                \/ PropagatesFailure
                   /\ run'.result = Threw("Failed to load recent history")
        /\ Awaits("save") =>
                \/ /\ db' = saveConversationState(db, SavedState(run))
                   /\ run'.pc = "inserting" \/ run'.result = Threw(ReferenceError)
                \/ PropagatesFailure /\ run'.result = SaveFailed /\ db' = db
        /\ Awaits("insert") =>
                \/ /\ Len(action_history') = Len(action_history)
                                                + Len(run.executed_actions)
                   /\ run'.result = Threw(ReferenceError)
                \/ /\ PropagatesFailure
                   /\ run'.result = InsertFailed
                   /\ action_history' = action_history ]_vars

\* a run that ended with the error of the append after its state was saved
C21_Witness ==
    /\ run.pc = "threw"
    /\ run.result = InsertFailed
    /\ db # NoRow
    /\ db.fsm_state = "HUMAN_TAKEOVER"
    /\ action_history = <<>>

-----------------------------------------------------------------------------
(* Properties of the events of a run                                       *)

\* the state the run ends with: what executeActions gives on the accepted list
EndStateOf(r) ==
    executeActions(
        [actions         |-> r.validActions,
         current_state   |-> r.conversationState,
         product_catalog |-> r.products],
        CHOOSE now \in Timestamps : TRUE).new_state

\* C22: when a message asking for a person is processed while the override is
\* off (detectEvents gave ESCALATION_REQUESTED), the override is activated: the
\* run ends with human_override = true, whatever the generation component
\* proposed.
C22_EscalationRequestActivatesOverride ==
    [][ (/\ run.pc = "llm"
         /\ run'.pc = "executing"
         /\ \E k \in 1..Len(run.detectedEvents) :
                run.detectedEvents[k] = "ESCALATION_REQUESTED")
            => EndStateOf(run').human_override = TRUE ]_vars

-----------------------------------------------------------------------------
(* Properties of the audit records                                         *)

\* the rows are one per action, in the order of the actions, validated and
\* executed
OnePerAction(rows, actions) ==
    /\ Len(rows) = Len(actions)
    /\ \A k \in 1..Len(rows) :
        /\ rows[k].action_type = actions[k].type.s
        /\ rows[k].validated = TRUE
        /\ rows[k].executed = TRUE

\* the rows the step added at the end of the table; the rows before are kept
Appended == SubSeq(action_history', Len(action_history) + 1, Len(action_history'))

\* the step ends a run whose state was saved
EndsSavedRun ==
    /\ run'.pc \in Settled
    /\ \/ run.pc = "inserting"
       \/ run.pc = "executing" /\ run'.result # SaveFailed

\* C23: in each run, one action_history record is appended per executed action,
\* validated and executed, and none for an action that was rejected or was not
\* executed; no step of the engine changes or deletes a record that exists.
C23_OneRecordPerExecutedAction ==
    [][ /\ Len(action_history') >= Len(action_history)
        /\ SubSeq(action_history', 1, Len(action_history)) = action_history
        /\ EndsSavedRun => OnePerAction(Appended, run.executed_actions)
        /\ ~EndsSavedRun => Appended = <<>> ]_vars

-----------------------------------------------------------------------------
(* Several invocations of processMessage in flight, on the conversations   *)
(* of one tenant.  The tables are keyed by conversation_id; an invocation  *)
(* takes its steps at the gateway calls it awaits.  Beside the database    *)
(* the model keeps, for each conversation, the database as it would be if  *)
(* the conversation were the only one (probe.alone).                       *)

Conversations == {"A", "B"}
Invocations == {"r1", "r2"}

\* the invocations a behaviour of this specification starts
MaxStarts == 3

\* what the generation call does in these runs
TwoRaws ==
    { LlmValue(ResponseObject(Array(<<Action("ADD_TO_CART", Params(Str("P1"), Num(1)))>>),
                              Str("ok"), Undefined, Undefined)),
      LlmValue(ResponseObject(Array(<<Action("CANCEL_ORDER", Undefined)>>),
                              Str("ok"), Undefined, Undefined)),
      LlmValue(ResponseObject(Array(<<Action("ESCALATE", NoParams)>>),
                              Str("ok"), Undefined, Undefined)) }

\* A world is a database and the invocations that work on it:
\* [table, history, runs].

\* an update that has no filter: every row of the table is written
UpdateWhere_everyRow(table, conversation_id, state) ==
    [c \in DOMAIN table |-> saveConversationState(table[c], state)]

\* .update(updateData).eq('conversation_id', conversation_id)
UpdateWhere(table, conversation_id, state) ==
    [c \in DOMAIN table |->
        IF c = conversation_id THEN saveConversationState(table[c], state)
        ELSE table[c]]

\* the rows of the batch, each with the conversation_id of the invocation
WithConversation(records, conversation_id) ==
    [k \in 1..Len(records) |->
        [conversation_id |-> conversation_id, record |-> records[k]]]

\* processMessage is called and loadFullState resolves (steps 1 to 3)
BeganRun(W, r, conversation_id, message, failure) ==
    LET row == W.table[conversation_id]
        conversationState == loadConversationState(row)
        \* the events of step 2 go to the generation component only
        loaded == [NoRun EXCEPT !.conversationState = conversationState,
                                !.products = products]
        locals ==
            IF failure # "none" THEN Raise("Failed to load")
            ELSE IF conversationState.human_override
            THEN [loaded EXCEPT
                    !.pc = "done",
                    !.result = buildResponse(
                        [human_override    |-> TRUE,
                         response_text     |-> Null,
                         new_state         |-> conversationState.fsm_state,
                         executed_actions  |-> <<>>,
                         validation_errors |-> <<>>])]
            ELSE [loaded EXCEPT !.pc = "history"]
    IN [table   |-> IF failure = "state" THEN W.table
                    ELSE [W.table EXCEPT ![conversation_id] = RowAfterLoad(row)],
        history |-> W.history,
        runs    |-> [W.runs EXCEPT ![r] = [conversation_id |-> conversation_id,
                                            locals          |-> locals]]]

\* loadRecentHistory and the generation call resolve; validation and execution
\* (steps 4 to 7), which read and write the locals of the invocation only
Thought(W, r, ok, raw, now) ==
    LET l == W.runs[r].locals
        llmResponse == runLlmOrchestrator(
            [current_state |-> l.conversationState.fsm_state], raw)
        checked == getValidActions(llmResponse.proposed_actions,
            [currentState |-> l.conversationState.fsm_state,
             cart         |-> l.conversationState.cart_json])
        executionResult == executeActions(
            [actions         |-> checked.valid,
             current_state   |-> l.conversationState,
             product_catalog |-> l.products], now)
        locals ==
            IF ~ok THEN Raise("Failed to load recent history")
            ELSE [l EXCEPT
                    !.pc = "executing",
                    !.llm_called = TRUE,
                    !.llmResponse = llmResponse,
                    !.validActions = checked.valid,
                    !.validationErrors = ErrorsOf(checked.rejected),
                    !.i = Len(checked.valid) + 1,
                    !.state = executionResult.new_state,
                    !.executed_actions = executionResult.executed_actions]
    IN [W EXCEPT !.runs[r].locals = locals]

\* a save with conflict detection: the row is written only when its cart is
\* still the one the invocation loaded
Saved_unlessChanged(W, r, ok) ==
    LET l == W.runs[r].locals
        row == W.table[W.runs[r].conversation_id]
    IN IF ok
       THEN [W EXCEPT
                !.table = IF row.cart_json = l.conversationState.cart_json
                          THEN UpdateWhere(@, W.runs[r].conversation_id, SavedState(l))
                          ELSE @,
                !.runs[r].locals = AfterSave(l)]
       ELSE [W EXCEPT !.runs[r].locals = Raise("Failed to save conversation state")]

\* saveConversationState resolves (step 8)
Saved(W, r, ok) ==
    LET l == W.runs[r].locals
    IN IF ok
       THEN [W EXCEPT
                !.table = UpdateWhere(@, W.runs[r].conversation_id, SavedState(l)),
                !.runs[r].locals = AfterSave(l)]
       ELSE [W EXCEPT !.runs[r].locals = Raise("Failed to save conversation state")]

\* insertActionHistoryBatch resolves (step 9), and step 10
Inserted(W, r, ok) ==
    LET l == W.runs[r].locals
    IN IF ok
       THEN [W EXCEPT
                !.history = insertActionHistoryBatch(@,
                    WithConversation(
                        ActionHistoryRecords(l.executed_actions,
                            l.conversationState.fsm_state, l.state.fsm_state),
                        W.runs[r].conversation_id)),
                !.runs[r].locals = Raise(ReferenceError)]
       ELSE [W EXCEPT !.runs[r].locals = Raise("Failed to insert action history batch")]

InitTwo ==
    /\ db = [c \in Conversations |-> NoRow]
    /\ products = Catalog(30)
    /\ action_history = <<>>
    /\ run = [r \in Invocations |-> [conversation_id |-> "none", locals |-> NoRun]]
    /\ mode = [interleave |-> TRUE, audit |-> TRUE]
    /\ probe = [fn     |-> "alone",
                starts |-> 0,
                alone  |-> [c \in Conversations |->
                    [table   |-> [d \in {c} |-> NoRow],
                     history |-> <<>>,
                     runs    |-> [r \in Invocations |->
                                    [conversation_id |-> "none", locals |-> NoRun]]]]]

\* Each step is taken in the database of the behaviour (db, action_history,
\* run) and in the database in which the conversation is alone.
BeginRun(r, conversation_id, message, failure) ==
    /\ run[r].locals.pc \in Settled
    /\ probe.starts < MaxStarts
    /\ LET N == BeganRun([table |-> db, history |-> action_history, runs |-> run],
                         r, conversation_id, message, failure)
       IN db' = N.table /\ action_history' = N.history /\ run' = N.runs
    /\ probe' = [probe EXCEPT
            !.starts = @ + 1,
            !.alone[conversation_id] =
                BeganRun(@, r, conversation_id, message, failure)]
    /\ UNCHANGED <<products, mode>>

Think(r, ok, raw, now) ==
    /\ run[r].locals.pc = "history"
    /\ LET N == Thought([table |-> db, history |-> action_history, runs |-> run],
                        r, ok, raw, now)
       IN db' = N.table /\ action_history' = N.history /\ run' = N.runs
    /\ probe' = [probe EXCEPT
            !.alone[run[r].conversation_id] = Thought(@, r, ok, raw, now)]
    /\ UNCHANGED <<products, mode>>

SaveOf(r, ok) ==
    /\ run[r].locals.pc = "executing"
    /\ LET N == Saved([table |-> db, history |-> action_history, runs |-> run], r, ok)
       IN db' = N.table /\ action_history' = N.history /\ run' = N.runs
    /\ probe' = [probe EXCEPT !.alone[run[r].conversation_id] = Saved(@, r, ok)]
    /\ UNCHANGED <<products, mode>>

InsertOf(r, ok) ==
    /\ run[r].locals.pc = "inserting"
    /\ LET N == Inserted([table |-> db, history |-> action_history, runs |-> run], r, ok)
       IN db' = N.table /\ action_history' = N.history /\ run' = N.runs
    /\ probe' = [probe EXCEPT !.alone[run[r].conversation_id] = Inserted(@, r, ok)]
    /\ UNCHANGED <<products, mode>>

NextTwo ==
    \/ \E r \in Invocations, c \in Conversations,
          failure \in {"none", "state", "catalog"} : BeginRun(r, c, "Hola", failure)
    \/ \E r \in Invocations, ok \in BOOLEAN, raw \in TwoRaws, now \in Timestamps :
            Think(r, ok, raw, now)
    \/ \E r \in Invocations, ok \in BOOLEAN : SaveOf(r, ok)
    \/ \E r \in Invocations, ok \in BOOLEAN : InsertOf(r, ok)

SpecTwo == InitTwo /\ [][NextTwo]_vars

\* the rows of the table that belong to the conversation
RECURSIVE RecordsOf(_, _)
RecordsOf(history, conversation_id) ==
    IF history = <<>> THEN <<>>
    ELSE IF Head(history).conversation_id = conversation_id
         THEN <<Head(history)>> \o RecordsOf(Tail(history), conversation_id)
         ELSE RecordsOf(Tail(history), conversation_id)

\* the conversation is in the shared database as it is when it is alone
AsAlone(c) ==
    /\ db[c] = probe.alone[c].table[c]
    /\ RecordsOf(action_history, c) = probe.alone[c].history
    /\ \A r \in Invocations :
        run[r].conversation_id = c => run[r] = probe.alone[c].runs[r]

\* C24: runs for different conversations are independent under any
\* interleaving.  A step of an invocation on one conversation changes neither
\* the persisted state nor the audit records of another conversation, and the
\* state, the records and the result of every invocation of a conversation are
\* the ones the same steps give when the conversation is alone in the database.
C24_ConversationsIndependent ==
    [][ /\ \A r \in Invocations, c \in Conversations :
            (run'[r] # run[r] /\ run'[r].conversation_id # c)
                => /\ db'[c] = db[c]
                   /\ RecordsOf(action_history', c) = RecordsOf(action_history, c)
        /\ \A c \in Conversations : AsAlone(c)' ]_vars

\* r1 has saved the cart of A and is about to append; r2 has executed ESCALATE
\* for B and is about to save
C24_Witness ==
    /\ probe.fn = "alone"
    /\ run["r1"].conversation_id = "A"
    /\ run["r1"].locals.pc = "inserting"
    /\ run["r2"].conversation_id = "B"
    /\ run["r2"].locals.pc = "executing"
    /\ run["r2"].locals.state.fsm_state = "HUMAN_TAKEOVER"
    /\ db["A"].fsm_state = "CART_OPEN"
    /\ db["B"].fsm_state = "IDLE"

-----------------------------------------------------------------------------
(* Properties of the working state of the executor                         *)

StateRestricted ==
    {"ADD_TO_CART", "UPDATE_QUANTITY", "REMOVE_ITEM", "CLEAR_CART", "REVIEW_ORDER",
     "CONFIRM_ORDER", "CANCEL_ORDER"}

\* the turn applied the effect of its action: the action was executed, and a
\* REVIEW_ORDER or CONFIRM_ORDER made its transition
EffectApplied ==
    /\ IsExecStep
    /\ StepExecuted
    /\ run.validActions[run.i].type.s \in {"REVIEW_ORDER", "CONFIRM_ORDER"}
            => run'.state.fsm_state # run.state.fsm_state

\* C25: whenever the executor applies the effect of a state-restricted action,
\* the working fsm_state at that moment is in the valid-state set the legality
\* matrix gives the action, at every position of the accepted list.
C25_EffectsOnlyInValidStates ==
    [][ (EffectApplied /\ run.validActions[run.i].type.s \in StateRestricted)
            => run.state.fsm_state \in
                    ACTION_VALIDATION_RULES[run.validActions[run.i].type.s]
                        .validStates.states ]_vars

\* human_override is true exactly in HUMAN_TAKEOVER
OverrideMatchesState(state) ==
    state.human_override <=> state.fsm_state = "HUMAN_TAKEOVER"

\* C26: in every state the engine produces from the default state,
\* human_override is true if and only if fsm_state is HUMAN_TAKEOVER: the
\* default state is so, every turn of the executor keeps it so, and the state a
\* run saves is so when the state it loaded was.
C26_OverrideIffHumanTakeover ==
    [][ /\ OverrideMatchesState(DEFAULT_CONVERSATION_STATE)
        /\ (IsExecStep /\ OverrideMatchesState(run.state))
                => OverrideMatchesState(run'.state)
        /\ (IsSave /\ OverrideMatchesState(run.conversationState))
                => OverrideMatchesState(db') ]_vars

\* the coherence of fsm_state and cart that the table of states describes
StateMatchesCart(state) ==
    /\ state.fsm_state \in {"IDLE", "BROWSING"} => Len(state.cart_json.items) = 0
    /\ state.fsm_state \in {"CART_OPEN", "CHECKOUT", "AWAITING_PAYMENT"}
            => Len(state.cart_json.items) >= 1

\* C27: in every state the engine produces from the default state, persisted
\* or working, fsm_state IDLE or BROWSING implies an empty cart, and fsm_state
\* CART_OPEN, CHECKOUT or AWAITING_PAYMENT implies a cart with at least one line.
C27_StateMatchesCart ==
    /\ db # NoRow => StateMatchesCart(db)
    /\ run.state # Null => StateMatchesCart(run.state)
    /\ run.conversationState # Null => StateMatchesCart(run.conversationState)

\* a run in CART_OPEN executed REVIEW_ORDER and then removed the only line
C27_Witness ==
    /\ run.pc = "inserting"
    /\ run.conversationState.fsm_state = "CART_OPEN"
    /\ Len(run.executed_actions) = 2
    /\ run.executed_actions[1].type = Str("REVIEW_ORDER")
    /\ run.executed_actions[2].type = Str("REMOVE_ITEM")
    /\ db.fsm_state = "BROWSING"
    /\ db.cart_json.items = <<>>

-----------------------------------------------------------------------------
(* Direct calls of the executor: one action executed on a state, in every  *)
(* fsm_state, accepted there by the validator or not.                      *)

\* every allowed type and one that is not allowed; params with quantities of
\* the declared type (number) that the model computes with
ExecActions ==
    { Action(type, params) :
        type \in ALLOWED_ACTIONS \cup {"MODIFY_PRICE"},
        params \in {Undefined}
            \cup { Params(pid, qty) :
                    pid \in {Undefined, Str("P1"), Str("P2"), Str("PX")},
                    qty \in {Undefined, Num(0), Num(1), Num(2), Num(100)} } }

\* the states given to the executor: without and with an override and an order
ExecStates ==
    { [ProbeStateOf(fsm_state, cart) EXCEPT
            !.human_override = flags.override,
            !.human_override_at = IF flags.override THEN Str("2025-01-20T09:00:00Z")
                                  ELSE Null,
            !.pending_order_id = flags.order] :
        fsm_state \in FSM_STATES, cart \in ProbeCarts,
        flags \in {[override |-> FALSE, order |-> NoOrder],
                   [override |-> TRUE, order |-> "O1"]} }

InitExecutor ==
    /\ db = NoRow
    /\ products \in {Catalog(price) : price \in PriceChoices}
    /\ action_history = <<>>
    /\ run = NoRun
    /\ mode = [interleave |-> FALSE, audit |-> FALSE]
    /\ \E action \in ExecActions, state \in ExecStates :
        probe = [fn      |-> "executeActions",
                 pc      |-> "call",
                 action  |-> action,
                 state   |-> state,
                 outcome |-> Null]

CallExecutor ==
    /\ probe.fn = "executeActions"
    /\ probe.pc = "call"
    /\ \E now \in Timestamps :
        probe' = [probe EXCEPT
            !.pc = "returned",
            !.outcome = executeActions(
                [actions         |-> <<probe.action>>,
                 current_state   |-> probe.state,
                 product_catalog |-> products], now)]
    /\ UNCHANGED <<db, products, action_history, run, mode>>

SpecExecutor == InitExecutor /\ [][CallExecutor]_vars

-----------------------------------------------------------------------------
(* Properties of the executor                                              *)

\* the product of the catalog with the id, for an id of the catalog
ProductOf(catalog, id) == CHOOSE product \in {catalog[k] : k \in 1..Len(catalog)} :
                                product.id = id

InCatalog(catalog, id) == \E k \in 1..Len(catalog) : catalog[k].id = id

\* the position of the line of the product in the cart, 0 when it has none
LineOf(items, id) ==
    IF \E k \in 1..Len(items) : items[k].product_id = id
    THEN CHOOSE k \in 1..Len(items) : items[k].product_id = id
    ELSE 0

\* C28: executing ADD_TO_CART(p, q), p a product of the catalog and q in 1..100:
\* when p has no line in the cart, exactly one line is appended, with quantity
\* q, unit_price = p.price and subtotal = q * p.price; when p has a line, q is
\* added to the quantity of that line; all other lines are unchanged; fsm_state
\* becomes CART_OPEN from IDLE and BROWSING and is unchanged otherwise.
C28_AddToCartEffect ==
    (/\ Returned("executeActions")
     /\ TypeIs({"ADD_TO_CART"})
     /\ ProductIdPresent(probe.action.params)
     /\ QuantityInRange(probe.action.params)
     /\ InCatalog(products, probe.action.params.product_id.s))
        => LET p      == probe.action.params.product_id.s
               q      == probe.action.params.quantity.n
               before == probe.state.cart_json.items
               after  == probe.outcome.new_state.cart_json.items
               k      == LineOf(before, p)
           IN /\ probe.outcome.executed_actions = <<probe.action>>
              /\ k = 0 =>
                    after = Append(before,
                        [product_id |-> p,
                         name       |-> ProductOf(products, p).name,
                         quantity   |-> q,
                         unit_price |-> ProductOf(products, p).price,
                         subtotal   |-> q * ProductOf(products, p).price])
              /\ k > 0 =>
                    /\ Len(after) = Len(before)
                    /\ after[k].quantity = before[k].quantity + q
                    /\ after[k].product_id = p
                    /\ \A j \in 1..Len(before) : j # k => after[j] = before[j]
              /\ probe.outcome.new_state.fsm_state =
                    IF probe.state.fsm_state \in {"IDLE", "BROWSING"} THEN "CART_OPEN"
                    ELSE probe.state.fsm_state

\* BROWSING, an empty cart, P1 at 30 and a quantity of 2: total 60 and CART_OPEN
C28_Witness ==
    /\ Returned("executeActions")
    /\ probe.action = Action("ADD_TO_CART", Params(Str("P1"), Num(2)))
    /\ probe.state.fsm_state = "BROWSING"
    /\ probe.state.cart_json.items = <<>>
    /\ products = Catalog(30)
    /\ probe.outcome.new_state.cart_json.total = 60
    /\ probe.outcome.new_state.fsm_state = "CART_OPEN"

\* the lines without the one at position k
Without(items, k) == [j \in 1..(Len(items) - 1) |-> IF j < k THEN items[j] ELSE items[j + 1]]

\* C29: executing REMOVE_ITEM(p), p a product with a line in the cart, deletes
\* exactly that line and leaves the other lines as they were; fsm_state becomes
\* BROWSING when the cart became empty and is unchanged when it did not.
\* Executing CLEAR_CART gives, in every state, an empty cart of total 0 and
\* fsm_state BROWSING.
C29_RemoveAndClearEffect ==
    /\ (/\ Returned("executeActions")
        /\ TypeIs({"REMOVE_ITEM"})
        /\ ProductIdPresent(probe.action.params)
        /\ LineOf(probe.state.cart_json.items, probe.action.params.product_id.s) > 0)
            => LET before == probe.state.cart_json.items
                   after  == probe.outcome.new_state.cart_json.items
                   k      == LineOf(before, probe.action.params.product_id.s)
               IN /\ probe.outcome.executed_actions = <<probe.action>>
                  /\ after = Without(before, k)
                  /\ probe.outcome.new_state.fsm_state =
                        IF after = <<>> THEN "BROWSING" ELSE probe.state.fsm_state
    /\ (Returned("executeActions") /\ TypeIs({"CLEAR_CART"}))
            => /\ probe.outcome.executed_actions = <<probe.action>>
               /\ probe.outcome.new_state.cart_json.items = <<>>
               /\ probe.outcome.new_state.cart_json.total = 0
               /\ probe.outcome.new_state.fsm_state = "BROWSING"

\* CART_OPEN with the one line (P1, 2): REMOVE_ITEM(P1) gives an empty cart and
\* BROWSING
C29_Witness ==
    /\ Returned("executeActions")
    /\ probe.action = Action("REMOVE_ITEM", Params(Str("P1"), Undefined))
    /\ probe.state.fsm_state = "CART_OPEN"
    /\ probe.state.cart_json = CartOf(<<Line("P1", "Maracuya", 2, 30)>>)
    /\ probe.outcome.new_state.cart_json.items = <<>>
    /\ probe.outcome.new_state.fsm_state = "BROWSING"

\* C30: REVIEW_ORDER changes fsm_state only from CART_OPEN, to CHECKOUT, and
\* CONFIRM_ORDER only from CHECKOUT, to AWAITING_PAYMENT; executed in any other
\* state each leaves the whole state as it was; neither changes the cart,
\* human_override or pending_order_id.
C30_ReviewAndConfirmEffect ==
    (Returned("executeActions") /\ TypeIs({"REVIEW_ORDER", "CONFIRM_ORDER"}))
        => LET from  == IF TypeIs({"REVIEW_ORDER"}) THEN "CART_OPEN" ELSE "CHECKOUT"
               to    == IF TypeIs({"REVIEW_ORDER"}) THEN "CHECKOUT" ELSE "AWAITING_PAYMENT"
               old   == probe.state
               new   == probe.outcome.new_state
           IN /\ new.fsm_state = IF old.fsm_state = from THEN to ELSE old.fsm_state
              /\ old.fsm_state # from => new = old
              /\ new.cart_json = old.cart_json
              /\ new.human_override = old.human_override
              /\ new.human_override_at = old.human_override_at
              /\ new.pending_order_id = old.pending_order_id

\* CONFIRM_ORDER in CHECKOUT, with a cart, an override and an order
C30_Witness ==
    /\ Returned("executeActions")
    /\ TypeIs({"CONFIRM_ORDER"})
    /\ probe.state.fsm_state = "CHECKOUT"
    /\ probe.state.pending_order_id = "O1"
    /\ probe.state.human_override
    /\ Len(probe.state.cart_json.items) = 2
    /\ probe.outcome.new_state.fsm_state = "AWAITING_PAYMENT"
    /\ probe.outcome.new_state.pending_order_id = "O1"

-----------------------------------------------------------------------------
(* Properties of the stages of the shopping flow                           *)

\* the state the run loaded and the state its save persists
StartedIn(states) == run.conversationState.fsm_state \in states
EndsIn(states) == db'.fsm_state \in states

\* C31: a run advances the shopping flow by at most one stage.  No run that
\* loaded IDLE or BROWSING saves CHECKOUT or AWAITING_PAYMENT and no run that
\* loaded CART_OPEN saves AWAITING_PAYMENT; a run that saves AWAITING_PAYMENT
\* without having loaded it loaded CHECKOUT, and a run that saves CHECKOUT
\* without having loaded it loaded CART_OPEN.
C31_AtMostOneStagePerRun ==
    [][ IsSave =>
            /\ StartedIn({"IDLE", "BROWSING"}) =>
                    ~EndsIn({"CHECKOUT", "AWAITING_PAYMENT"})
            /\ StartedIn({"CART_OPEN"}) => ~EndsIn({"AWAITING_PAYMENT"})
            /\ (EndsIn({"AWAITING_PAYMENT"}) /\ ~StartedIn({"AWAITING_PAYMENT"}))
                    => StartedIn({"CHECKOUT"})
            /\ (EndsIn({"CHECKOUT"}) /\ ~StartedIn({"CHECKOUT"}))
                    => StartedIn({"CART_OPEN"}) ]_vars

\* a run that loaded CHECKOUT has saved AWAITING_PAYMENT after a proposal of
\* two actions
C31_Witness ==
    /\ run.pc = "inserting"
    /\ run.conversationState.fsm_state = "CHECKOUT"
    /\ db.fsm_state = "AWAITING_PAYMENT"
    /\ Len(run.llmResponse.proposed_actions) = 2
    /\ run.executed_actions = <<Action("CONFIRM_ORDER", NoParams)>>

-----------------------------------------------------------------------------
(* The executor on references.  The objects of a call live in a heap, a    *)
(* sequence of cells addressed by their index: a state object (its         *)
(* cart_json is the address of a cart object), a cart object (its items is *)
(* the address of an array) and an array with its item objects, which are  *)
(* always copied or shared together.  A spread allocates a cell; a write   *)
(* through a reference changes the cell the reference names.  The module   *)
(* constant DEFAULT_CART is in every heap: its array is cell 1 and its     *)
(* object is cell 2.                                                       *)

\* the length of the longest list given to the executor
MaxListLen == 2

\* the content a state reference denotes
ValueOf(heap, state) ==
    [heap[state] EXCEPT
        !.cart_json = [heap[@] EXCEPT !.items = heap[@]]]

\* a copy that is the object it was given
cloneCart_sameObject(heap, cart) == [heap |-> heap, ref |-> cart]

\* { ...cart, items: cart.items.map((item) => ({ ...item })) }
cloneCart(heap, cart) ==
    LET items == Len(heap) + 1
    IN [heap |-> heap \o << heap[heap[cart].items],
                            [heap[cart] EXCEPT !.items = items] >>,
        ref  |-> Len(heap) + 2]

\* One call of executeSingleAction: [heap, executed, state].  What the called
\* function computes is what it computes on contents; where it puts it follows
\* its code: the same reference when it returns { executed, state }, a new
\* state object for { ...state, ... }, a new cart for { ...DEFAULT_CART }, and
\* the writes of the cart actions through the reference cloneCart returned.
executeSingleActionRef(heap, action, state, catalog, now) ==
    LET result == executeSingleAction(action, ValueOf(heap, state), catalog, now)
        Same == [heap |-> heap, executed |-> result.executed, state |-> state]
        Spread(h, cart) ==
            [heap     |-> Append(h, [result.state EXCEPT !.cart_json = cart]),
             executed |-> result.executed,
             state    |-> Len(h) + 1]
    IN CASE action.type \in {Str("ADD_TO_CART"), Str("UPDATE_QUANTITY"),
                             Str("REMOVE_ITEM")} ->
                IF ~result.executed THEN Same
                ELSE LET cart == cloneCart(heap, heap[state].cart_json)
                         written ==
                            [cart.heap EXCEPT
                                ![cart.heap[cart.ref].items] =
                                    result.state.cart_json.items,
                                ![cart.ref].total = result.state.cart_json.total]
                     IN Spread(written, cart.ref)
         [] action.type \in {Str("CLEAR_CART"), Str("CANCEL_ORDER")} ->
                Spread(Append(heap, heap[2]), Len(heap) + 1)
         [] action.type \in {Str("REVIEW_ORDER"), Str("CONFIRM_ORDER")} ->
                IF result.state.fsm_state = heap[state].fsm_state THEN Same
                ELSE Spread(heap, heap[state].cart_json)
         [] action.type = Str("ESCALATE") -> Spread(heap, heap[state].cart_json)
         [] OTHER -> Same

\* The caller holds a state object with its cart, or a state whose cart is the
\* module constant, and gives the executor a list of actions.
InitRefs ==
    /\ db = NoRow
    /\ products \in {Catalog(price) : price \in PriceChoices}
    /\ action_history = <<>>
    /\ run = NoRun
    /\ mode = [interleave |-> FALSE, audit |-> FALSE]
    /\ \E fsm_state \in {"IDLE", "CART_OPEN", "CHECKOUT"}, cart \in ProbeCarts,
          constant \in BOOLEAN,
          actions \in UNION { [1..n ->
                { Action("ADD_TO_CART", Params(Str("P1"), Num(2))),
                  Action("ADD_TO_CART", Params(Str("PX"), Num(1))),
                  Action("UPDATE_QUANTITY", Params(Str("P1"), Num(5))),
                  Action("REMOVE_ITEM", Params(Str("P1"), Undefined)),
                  Action("CLEAR_CART", NoParams),
                  Action("REVIEW_ORDER", NoParams),
                  Action("CANCEL_ORDER", NoParams),
                  Action("ESCALATE", NoParams),
                  Action("REPLY", NoParams),
                  Action("MODIFY_PRICE", NoParams) }] : n \in 1..MaxListLen } :
        /\ constant => cart = DEFAULT_CART
        /\ LET heap == << DEFAULT_CART.items,
                          [DEFAULT_CART EXCEPT !.items = 1],
                          cart.items,
                          [cart EXCEPT !.items = 3],
                          [ProbeStateOf(fsm_state, cart) EXCEPT
                                !.cart_json = IF constant THEN 2 ELSE 4] >>
           IN probe = [fn               |-> "executeActions",
                       pc               |-> "call",
                       given            |-> heap,
                       heap             |-> heap,
                       actions          |-> actions,
                       current_state    |-> 5,
                       i                |-> 0,
                       state            |-> 0,
                       executed_actions |-> <<>>]

\* executeActions: the clone of the state at the call, then one turn of the
\* loop at a time, then the return
StepRefs ==
    /\ probe.fn = "executeActions"
    /\ probe.pc \in {"call", "loop"}
    /\ IF probe.pc = "call"
       THEN LET cart == cloneCart(probe.heap, probe.heap[probe.current_state].cart_json)
            IN probe' = [probe EXCEPT
                    !.pc = "loop",
                    !.heap = Append(cart.heap,
                                [probe.heap[probe.current_state] EXCEPT
                                    !.cart_json = cart.ref]),
                    !.state = Len(cart.heap) + 1,
                    !.i = 1]
       ELSE IF probe.i > Len(probe.actions)
       THEN probe' = [probe EXCEPT !.pc = "returned"]
       ELSE \E now \in Timestamps :
            LET result == executeSingleActionRef(probe.heap, probe.actions[probe.i],
                                                 probe.state, products, now)
            IN probe' = [probe EXCEPT
                    !.heap = result.heap,
                    !.state = result.state,
                    !.executed_actions =
                        IF result.executed THEN Append(@, probe.actions[probe.i])
                        ELSE @,
                    !.i = @ + 1]
    /\ UNCHANGED <<db, products, action_history, run, mode>>

SpecRefs == InitRefs /\ [][StepRefs]_vars

-----------------------------------------------------------------------------
(* Properties of executeActions on references                              *)

\* s is t without some of its elements
RECURSIVE IsSubsequence(_, _)
IsSubsequence(s, t) ==
    IF s = <<>> THEN TRUE
    ELSE IF t = <<>> THEN FALSE
    ELSE IF Head(s) = Head(t) THEN IsSubsequence(Tail(s), Tail(t))
    ELSE IsSubsequence(s, Tail(t))

\* the loop has taken the first n actions of the list in their order: its
\* working state and its executed_actions are those of executing them one
\* after the other from the content given
TookInOrder(n) ==
    \E now \in Timestamps :
        [executed_actions |-> probe.executed_actions,
         new_state        |-> ValueOf(probe.heap, probe.state)]
        = executeActions(
            [actions         |-> SubSeq(probe.actions, 1, n),
             current_state   |-> ValueOf(probe.given, probe.current_state),
             product_catalog |-> products], now)

\* C32: executeActions applies the actions in the order of the list to a working
\* copy and never mutates its input.  During and after the call every object
\* that existed at the call, the caller's state, its cart, its lines and the
\* constant DEFAULT_CART, is as it was, so current_state has the fsm_state, the
\* override, the lines and the total it had; and executed_actions is a
\* subsequence of the list given, in the same order.
C32_InputNotMutated ==
    (probe.fn = "executeActions" /\ probe.pc \in {"loop", "returned"})
        => /\ \A ref \in 1..Len(probe.given) : probe.heap[ref] = probe.given[ref]
           /\ ValueOf(probe.heap, probe.current_state)
                = ValueOf(probe.given, probe.current_state)
           /\ TookInOrder(probe.i - 1)
           /\ IsSubsequence(probe.executed_actions, probe.actions)

\* a call returned after it added to a line of the caller's cart and then
\* skipped an action: the working state differs from the caller's
C32_Witness ==
    /\ probe.fn = "executeActions"
    /\ probe.pc = "returned"
    /\ probe.actions = << Action("ADD_TO_CART", Params(Str("P1"), Num(2))),
                          Action("MODIFY_PRICE", NoParams) >>
    /\ probe.executed_actions = << probe.actions[1] >>
    /\ Len(ValueOf(probe.given, probe.current_state).cart_json.items) = 2
    /\ ValueOf(probe.heap, probe.state).cart_json.total
            > ValueOf(probe.heap, probe.current_state).cart_json.total

-----------------------------------------------------------------------------
(* Properties of the states in the audit records                           *)

\* the fsm_state of the run after the first k of its executed actions
FsmStateAfter(r, k) ==
    executeActions(
        [actions         |-> SubSeq(r.executed_actions, 1, k),
         current_state   |-> r.conversationState,
         product_catalog |-> r.products],
        CHOOSE now \in Timestamps : TRUE).new_state.fsm_state

\* C33: the fsm_state_before and the fsm_state_after of each action_history
\* record are the fsm_state immediately before and immediately after the
\* execution of the action of the record, also in a run that executes several
\* actions.
C33_RecordStatesAreOfOwnAction ==
    [][ (run.pc = "inserting" /\ action_history' # action_history)
            => \A k \in 1..Len(Appended) :
                /\ Appended[k].fsm_state_before = FsmStateAfter(run, k - 1)
                /\ Appended[k].fsm_state_after = FsmStateAfter(run, k) ]_vars

-----------------------------------------------------------------------------
(* Properties of the invocations on one conversation                       *)

\* the step is the load of invocation r, and it succeeded
LoadsOf(r) ==
    /\ run'[r] # run[r]
    /\ run[r].locals.pc \in Settled
    /\ run'[r].locals.pc \in {"history", "done"}

\* the step is the save of invocation r, and the write succeeded
SavesOf(r) ==
    /\ run[r].locals.pc = "executing"
    /\ run'[r].locals.pc \in {"inserting", "threw"}
    /\ run'[r].locals.result # SaveFailed

\* C34: there is no conflict detection and no merge.  An invocation starts from
\* the state that is persisted when it loads; what it computes is the execution
\* of its accepted actions on that snapshot, whatever another invocation of the
\* conversation saves meanwhile; and its save persists the fsm_state and the
\* cart it computed, whatever the row holds then.  So of two invocations that
\* loaded before either saved the one that saves last determines the persisted
\* state, and of two serialized ones the second starts from what the first
\* persisted.
C34_LastSaveWins ==
    [][ \A r \in Invocations :
            LET c == run[r].conversation_id
                l == run[r].locals
            IN /\ LoadsOf(r) =>
                    run'[r].locals.conversationState
                        = loadConversationState(db[run'[r].conversation_id])
               /\ l.pc = "executing" =>
                    /\ l.state = EndStateOf(l)
                    /\ run'[r] # run[r] => (SavesOf(r) \/ run'[r].locals.result = SaveFailed)
               /\ SavesOf(r) =>
                    /\ db'[c].fsm_state = l.state.fsm_state
                    /\ db'[c].cart_json = l.state.cart_json
                    /\ db'[c].human_override = l.state.human_override ]_vars

\* r1 and r2 loaded the new conversation A; r1 added a line and saved; r2
\* escalated on its snapshot and saved after r1: the line of r1 is lost
C34_Witness ==
    /\ probe.fn = "alone"
    /\ \A r \in Invocations :
        /\ run[r].conversation_id = "A"
        /\ run[r].locals.pc = "inserting"
        /\ run[r].locals.conversationState.fsm_state = "IDLE"
        /\ run[r].locals.conversationState.cart_json = DEFAULT_CART
    /\ Len(run["r1"].locals.state.cart_json.items) = 1
    /\ run["r2"].locals.state.fsm_state = "HUMAN_TAKEOVER"
    /\ db["A"].fsm_state = "HUMAN_TAKEOVER"
    /\ db["A"].cart_json = DEFAULT_CART

-----------------------------------------------------------------------------
(* Properties of the terminal state                                        *)

\* C35: no action and no sequence of runs sets fsm_state to COMPLETED.  Neither
\* the persisted state, nor the state a run loaded, nor the working state of an
\* executor is ever COMPLETED, also when the generation output suggests it.
C35_NeverCompleted ==
    /\ db # NoRow => db.fsm_state # "COMPLETED"
    /\ run.conversationState # Null => run.conversationState.fsm_state # "COMPLETED"
    /\ run.state # Null => run.state.fsm_state # "COMPLETED"

\* a run that loaded AWAITING_PAYMENT is about to save; the generation output
\* suggested COMPLETED and its action was rejected
C35_Witness ==
    /\ run.pc = "executing"
    /\ run.i > Len(run.validActions)
    /\ run.conversationState.fsm_state = "AWAITING_PAYMENT"
    /\ run.llmResponse.suggested_state = Str("COMPLETED")
    /\ run.state.fsm_state = "AWAITING_PAYMENT"

-----------------------------------------------------------------------------
(* Properties of the lines of the cart                                     *)

\* no two lines of the cart have the same product_id
UniquelyKeyed(cart) ==
    \A i, j \in 1..Len(cart.items) :
        cart.items[i].product_id = cart.items[j].product_id => i = j

\* C36: after any sequence of runs and accepted actions no two lines of the
\* cart have the same product_id, in the persisted cart, in the cart a run
\* loaded and in the working cart of the executor: adding a product that has a
\* line merges into the line.
C36_LinesUniquelyKeyed ==
    /\ db # NoRow => UniquelyKeyed(db.cart_json)
    /\ run.conversationState # Null => UniquelyKeyed(run.conversationState.cart_json)
    /\ run.state # Null => UniquelyKeyed(run.state.cart_json)

\* a run added P1 twice and P1 has one line, beside the line of P2 that the
\* cart had
C36_Witness ==
    /\ run.pc = "inserting"
    /\ Len(run.executed_actions) = 2
    /\ \A k \in 1..2 : run.executed_actions[k].type = Str("ADD_TO_CART")
                       /\ run.executed_actions[k].params.product_id = Str("P1")
    /\ Len(run.conversationState.cart_json.items) = 1
    /\ run.conversationState.cart_json.items[1].product_id = "P2"
    /\ Len(db.cart_json.items) = 2
    /\ db.cart_json.items[2].quantity = 120

-----------------------------------------------------------------------------
(* Properties of the runs whose generation call failed                     *)

\* the generation call of the run threw or gave an output that is not valid:
\* the orchestrator returned the fallback
GenerationFailed(r) ==
    /\ r.llmResponse # Null
    /\ IsFallback(r.llmResponse, r.conversationState.fsm_state)

\* C37: when the generation call returns an invalid encoding or an output out
\* of contract, or throws, the run returns handled = true with the fallback
\* text and no executed action, and the persisted fsm_state, cart and
\* human_override are the loaded ones.
C37_FallbackRunReturns ==
    [][ (RunEnds /\ GenerationFailed(run))
            => /\ run'.pc = "done"
               /\ run'.result.handled = TRUE
               /\ run'.result.response_text = Str(FALLBACK_RESPONSE_TEXT)
               /\ run'.result.executed_actions = <<>>
               /\ db'.fsm_state = run.conversationState.fsm_state
               /\ db'.cart_json = run.conversationState.cart_json
               /\ db'.human_override = run.conversationState.human_override ]_vars

-----------------------------------------------------------------------------
(* Direct calls of the event detector.  Beside the messages of the runs it *)
(* is given every combination of the four kinds of pattern, written in the *)
(* reverse of the priority order, each pattern alone, in upper and lower   *)
(* case, and patterns inside longer words; with and without an image and   *)
(* an override.                                                            *)

InitDetector ==
    /\ db = NoRow
    /\ products = Catalog(30)
    /\ action_history = <<>>
    /\ run = NoRun
    /\ mode = [interleave |-> FALSE, audit |-> FALSE]
    /\ \E has_image \in BOOLEAN, human_override \in BOOLEAN,
          customer_message \in Messages \cup
              {"gracias",
               "quiero cancelar pedido",
               "ya pague",
               "quiero hablar con alguien",
               "Buenos dias, Ya no quiero",
               "buenas tardes, ya Transferi",
               "Hola, un ASESOR por favor",
               "quiero cancelar pedido, ya pague",
               "Ya no quiero, necesito un Humano",
               "ya Transferi, quiero hablar con alguien",
               "Buenos dias, quiero cancelar pedido, ya pague",
               "buenas tardes, Ya no quiero, un ASESOR por favor",
               "Hola, ya Transferi, necesito un Humano",
               "quiero cancelar pedido, ya pague, quiero hablar con alguien",
               "Buenos dias, Ya no quiero, ya Transferi, un ASESOR por favor",
               "Buenos dias",
               "buenas tardes",
               "Ya no quiero",
               "ya Transferi",
               "un ASESOR por favor",
               "necesito un Humano",
               "una asesoria",
               "vengo de Holanda"} :
        probe = [fn     |-> "detectEvents",
                 pc     |-> "call",
                 input  |-> [customer_message |-> customer_message,
                             has_image        |-> has_image,
                             human_override   |-> human_override],
                 events |-> <<>>]

CallDetector ==
    /\ probe.fn = "detectEvents"
    /\ probe.pc = "call"
    /\ probe' = [probe EXCEPT !.pc = "returned", !.events = detectEvents(probe.input)]
    /\ UNCHANGED <<db, products, action_history, run, mode>>

SpecDetector == InitDetector /\ [][CallDetector]_vars

-----------------------------------------------------------------------------
(* Properties of the event detector                                        *)

\* C38: detectEvents returns the empty list whenever human_override is true;
\* otherwise it returns each event at most once and in the order
\* ESCALATION_REQUESTED, PAYMENT_PROOF_RECEIVED, ORDER_CANCELLED,
\* GREETING_RECEIVED, whatever patterns the message has and in whatever order
\* it has them; an image is a payment proof.
C38_EventsInPriorityOrder ==
    (probe.fn = "detectEvents" /\ probe.pc = "returned")
        => /\ probe.input.human_override => probe.events = <<>>
           /\ IsSubsequence(probe.events,
                <<"ESCALATION_REQUESTED", "PAYMENT_PROOF_RECEIVED",
                  "ORDER_CANCELLED", "GREETING_RECEIVED">>)
           /\ (probe.input.has_image /\ ~probe.input.human_override)
                => \E k \in 1..Len(probe.events) :
                        probe.events[k] = "PAYMENT_PROOF_RECEIVED"

\* a message with a greeting, a cancellation, a transfer and a request for a
\* person, in this order, gave the four events
C38_Witness ==
    /\ probe.fn = "detectEvents"
    /\ probe.pc = "returned"
    /\ probe.input.customer_message
            = "Buenos dias, Ya no quiero, ya Transferi, un ASESOR por favor"
    /\ ~probe.input.has_image
    /\ Len(probe.events) = 4

-----------------------------------------------------------------------------
(* Properties of the flow of the events and of the suggested state         *)

\* fsm_state, cart and override of the state that executing the accepted
\* actions of the generation output on the loaded state gives: a function of
\* the loaded state, the catalog and the generation output
OutcomeOf(r) ==
    LET state == OfAcceptedOnly(r).new_state
    IN <<state.fsm_state, state.cart_json, state.human_override>>

WithSuggested(r, state) == [r EXCEPT !.llmResponse.suggested_state = Str(state)]

\* fsm_state, cart and override of the partial state the run saves
SavedOf(r) ==
    <<SavedState(r).fsm_state, SavedState(r).cart_json, SavedState(r).human_override>>

====
